---------------------------- MODULE Spec2Model ----------------------------
(***************************************************************************)
(* A model of the tosi image store (github.com/elotl/tosi).                *)
(*                                                                         *)
(*   pkg/store/store.go        (src/unnamed/part_002, lines 1-385)         *)
(*   pkg/registryclient        (src/pkg/util/file.go, lines 53-208)        *)
(*   pkg/util/file.go          (src/pkg/util/file.go, lines 1-51)          *)
(*   pkg/manifest/manifest.go  (src/pkg/manifest/manifest.go)              *)
(*                                                                         *)
(* The module holds several specifications over one set of variables; each *)
(* specification leaves the variables of the others at their initial       *)
(* value.                                                                  *)
(*                                                                         *)
(*   SpecLayers  Manifest.Layers() applied to bounded manifests            *)
(*   SpecBlob    concurrent RegistryClient.SaveBlob calls on layers/       *)
(*   SpecStore   Store.Pull, Store.Mount and Store.Unpack on one cache     *)
(*   SpecIdem    Store.Pull run twice in a row on one cache                *)
(*                                                                         *)
(* Files are modelled by their content, directories by the number of tar   *)
(* entries extracted into them, and every filesystem call of the code is   *)
(* one step.  The failures modelled are the ones the environment can       *)
(* produce on its own: a registry stream that fails or delivers other      *)
(* bytes, a blob that is not a well-formed tar, a random token that        *)
(* repeats, and the filesystem errors that follow from the state of the    *)
(* cache (EEXIST, ENOTEMPTY, ENOENT).  Spurious I/O errors (disk full,     *)
(* permissions) are not modelled.                                          *)
(***************************************************************************)
EXTENDS Integers, Sequences, FiniteSets, TLC

\* What a path that does not exist holds: no content is equal to it.
Absent == <<-1>>

(***************************************************************************)
(* Bounds.                                                                 *)
(***************************************************************************)
\* The longest byte stream a registry delivers (SpecBlob).
MaxLen == 2
\* The longest source layer list of a manifest (SpecLayers).
MaxRefs == 3
\* The number of distinct digests in manifests (SpecLayers).
NDigests == 3

(***************************************************************************)
(* Contents and digests.  A blob is a sequence of tar entries, each 1 (a   *)
(* well-formed entry) or 0 (a corrupt header).  The digest of a blob is    *)
(* computed from all its bytes and is collision-free on the bounded        *)
(* domain, as sha256 is in practice: the bytes read as a binary number     *)
(* behind a leading 1.                                                     *)
(***************************************************************************)
RECURSIVE SeqsUpTo(_, _)
SeqsUpTo(S, n) ==
    IF n = 0 THEN {<<>>}
    ELSE LET shorter == SeqsUpTo(S, n - 1)
         IN  shorter \cup {Append(s, x) : s \in {t \in shorter : Len(t) = n - 1}, x \in S}

Bytes == {0, 1}

RECURSIVE Hash(_)
Hash(c) ==
    IF c = <<>> THEN 1
    ELSE 2 * Hash(SubSeq(c, 1, Len(c) - 1)) + c[Len(c)]

IsDupFree(s) == \A i, j \in 1..Len(s) : i # j => s[i] # s[j]

Reverse(s) == [i \in 1..Len(s) |-> s[Len(s) + 1 - i]]

(***************************************************************************)
(* Variables.                                                              *)
(***************************************************************************)
VARIABLES
    \* SpecLayers
    mfest,          \* the Manifest value Layers() is called on
    layersPc,       \* "call", then "done", or "panic" when Layers() panicked
    layersOut,      \* what Layers() returned
    \* SpecBlob and the stores
    validateCachedLayers,   \* RegistryClient.validateCachedLayers
    layerFiles,     \* layers/<hex>: content, or Absent
    tmpDirs,        \* layers/tmp-<name>/: NoDir, or <<f>> with f the file in it (or Absent)
    sb,             \* per SaveBlob caller: its position and locals
    \* SpecStore and SpecIdem: the cache
    image,          \* the Manifest the registry holds for the image pulled and mounted
    ovl,            \* overlays/<hex>/: the set of tar entries extracted, or NoTree
    ovlTmp,         \* overlays/.<hex>/: likewise
    linkFile,       \* overlays/<hex>.link: the token stored, or NoToken
    symlinks,       \* overlays/<token>: the digest directory it points to, or NoHex
    manifestFiles,  \* manifests/<id>: the ids present
    manifestLink,   \* manifests/<repo>:<ref>: the id it points to, or NoId
    configFiles,    \* configs/<id>: the ids present
    \* SpecStore and SpecIdem: the operations
    task,           \* per layer task (a doPull iteration, a Mount goroutine): position and locals
    pull,           \* Store.Pull: position, return value
    mount,          \* Store.Mount: position, lowerdir, return value
    snap,           \* history: the cache as the first successful Pull left it
    \* SpecPool: Store.pullLayers and its workers
    parallelism,    \* the parallelism NewStore was called with
    nLayers,        \* len(layers)
    failing,        \* the layers whose download or extraction fails
    layerCh,        \* the descriptors in layerCh (capacity nLayers)
    layerChClosed,  \* close(layerCh) was called
    resultCh,       \* the results in resultCh (capacity nLayers): <<layer, is an error>>
    worker,         \* per doPull goroutine: position and locals
    wg,             \* the WaitGroup counter
    taken,          \* history: per layer, how many times a worker received it
    pl,             \* pullLayers: position and locals
    \* SpecFetch: manifest.Fetch
    registry,       \* what the registry answers to the manifest requests
    fetch,          \* Fetch: position, locals and return value
    \* SpecSaveLink: the link Manifest.Save creates
    saveArgs,       \* the manifest directory, m.Image, m.Tag and the schema of m
    saveLink,       \* the link created: its path and the target stored in it
    \* SpecLinkRace: concurrent Manifest.Save and manifest.Load of one repo:ref
    saver,          \* per Save caller: position, the id of its manifest, error
    loader,         \* the Load caller: position, error
    \* SpecParseSpec and SpecParseFull: util.ParseImageSpec, util.ParseFullImage
    parseIn,        \* the image string
    parseOut,       \* what the parser returned, once it has
    \* Store.Mount's directories
    mdirs,          \* dest, dest.upper and dest.work: "absent", "empty" or "nonempty"
    \* SpecRepair
    scfg,           \* the SaveConfig call: its position, its error and the file at dest
    \* SpecFlat
    flat            \* flat extraction: the rootfs tree and extractLayerToDir's locals

layersVars == <<mfest, layersPc, layersOut>>
blobVars == <<validateCachedLayers, layerFiles, tmpDirs, sb>>
cacheVars == <<ovl, ovlTmp, linkFile, symlinks, manifestFiles, manifestLink, configFiles>>
opVars == <<image, task, pull, mount, snap>>
storeVars == <<cacheVars, opVars>>
poolVars == <<parallelism, nLayers, failing, layerCh, layerChClosed, resultCh, worker, wg, taken, pl>>
fetchVars == <<registry, fetch>>
saveVars == <<saveArgs, saveLink>>
raceVars == <<saver, loader>>
parseVars == <<parseIn, parseOut>>
otherVars == <<poolVars, fetchVars, saveVars, raceVars, parseVars>>
restVars == <<mdirs, scfg, flat>>
extraVars == <<otherVars, restVars>>
vars == <<layersVars, blobVars, storeVars, extraVars>>

(***************************************************************************)
(* Manifest.Layers() (pkg/manifest/manifest.go).                           *)
(* A Manifest holds a schema-1 variant, a schema-2 variant, or both       *)
(* (hasV1 and hasV2 say which pointers are not nil); a variant is the      *)
(* source layer list, a sequence of descriptors.                           *)
(***************************************************************************)
Descriptor(d, s) == [digest |-> d, size |-> s]

\* The loop of v1Layers: source references i, i-1, ..., 1 appended to refs
\* unless their digest is already in refs.
RECURSIVE v1Loop(_, _, _)
v1Loop(v1refs, i, refs) ==
    IF i = 0 THEN refs
    ELSE LET ref == v1refs[i]
             exists == \E k \in 1..Len(refs) : refs[k].digest = ref.digest
         IN  v1Loop(v1refs, i - 1, IF exists THEN refs ELSE Append(refs, ref))

v1LayersKeepsDuplicates(m) == Reverse(m.ManifestV1)
v1Layers(m) == v1Loop(m.ManifestV1, Len(m.ManifestV1), <<>>)

v2Layers(m) == m.ManifestV2

\* Whether Layers(), ID() and Config() reach panic("no manifest available").
Panics(m) == ~m.hasV1 /\ ~m.hasV2

Layers(m) ==
    IF m.hasV1 THEN v1Layers(m)
    ELSE IF m.hasV2 THEN v2Layers(m)
    ELSE <<>>

\* The variant each method works on, as its tests of the two pointers
\* select it: Layers(), ID(), Config() and Save().  Save has no panic of
\* its own; with both pointers nil it dereferences ManifestV2.
LayersVariant(m) == IF m.hasV1 THEN "v1" ELSE IF m.hasV2 THEN "v2" ELSE "panic"
IDVariant(m) == IF m.hasV1 THEN "v1" ELSE IF m.hasV2 THEN "v2" ELSE "panic"
ConfigPrefersV2(m) == IF m.hasV2 THEN "v2" ELSE IF m.hasV1 THEN "v1" ELSE "panic"
ConfigVariant(m) == IF m.hasV1 THEN "v1" ELSE IF m.hasV2 THEN "v2" ELSE "panic"
SaveVariant(m) == IF m.hasV1 THEN "v1" ELSE IF m.hasV2 THEN "v2" ELSE "panic"

(***************************************************************************)
(* SpecLayers: Layers() on every bounded manifest.                         *)
(***************************************************************************)
\* Schema-1 references carry no size (0); schema-2 descriptors carry one.
V1Refs == {[i \in 1..Len(ds) |-> Descriptor(ds[i], 0)] : ds \in SeqsUpTo(1..NDigests, MaxRefs)}
V2Refs == {[i \in 1..Len(ds) |-> Descriptor(ds[i], 1)] : ds \in SeqsUpTo(1..NDigests, MaxRefs)}

SchemaV1(r) == [hasV1 |-> TRUE, ManifestV1 |-> r, hasV2 |-> FALSE, ManifestV2 |-> <<>>]
SchemaV2(r) == [hasV1 |-> FALSE, ManifestV1 |-> <<>>, hasV2 |-> TRUE, ManifestV2 |-> r]
NoManifest == [hasV1 |-> FALSE, ManifestV1 |-> <<>>, hasV2 |-> FALSE, ManifestV2 |-> <<>>]

LayerManifests == {SchemaV1(r) : r \in V1Refs} \cup {SchemaV2(r) : r \in V2Refs}

CallLayers ==
    /\ layersPc = "call"
    /\ layersPc' = IF Panics(mfest) THEN "panic" ELSE "done"
    /\ layersOut' = Layers(mfest)
    /\ UNCHANGED <<mfest, blobVars, storeVars, extraVars>>

NewManifest ==
    /\ layersPc = "done"
    /\ mfest' \in LayerManifests
    /\ layersPc' = "call"
    /\ layersOut' = <<>>
    /\ UNCHANGED <<blobVars, storeVars, extraVars>>

(***************************************************************************)
(* RegistryClient.SaveBlob (pkg/registryclient), one step per filesystem   *)
(* or network call.                                                        *)
(***************************************************************************)
Contents == SeqsUpTo(Bytes, MaxLen)
Hexes == {Hash(c) : c \in Contents}

\* The blobs manifests refer to: a well-formed tar of two entries, a tar
\* whose second header is corrupt, and a well-formed tar of one entry.
GoodBlob == <<1, 1>>
BadBlob == <<1, 0>>
SmallBlob == <<1>>
BlobContents == {GoodBlob, BadBlob, SmallBlob}
BlobDescs == {Descriptor(Hash(c), s) : c \in BlobContents, s \in 0..MaxLen}

Callers == {1, 2}

\* ioutil.TempDir(dir, "tmp-") returns a directory name no other caller has.
TempDirSharedName(p) == 0
TempDir(p) == p
TmpNames == {0} \cup Callers

\* digest.Verifier: the bytes written hash to the descriptor's digest.
VerifiedAlways(bytes, dgst) == TRUE
Verified(bytes, dgst) == Hash(bytes) = dgst

\* isLayerValid: the cached file hashes to the digest.
CachedAlwaysValid(name, dgst) == TRUE
isLayerValid(name, dgst) ==
    /\ layerFiles[name] # Absent
    /\ Verified(layerFiles[name], dgst)

NoDir == <<>>
NoDesc == Descriptor(0, 0)

\* A caller's locals: err is the error SaveBlob returns; opened, badStream
\* and renamed record that it opened a blob stream, that the stream failed
\* or did not satisfy the descriptor, and that it renamed its file in place;
\* renameFails that the file system will refuse this call's os.Rename.
sbIdle == [pc |-> "idle", desc |-> NoDesc, err |-> FALSE,
           opened |-> FALSE, badStream |-> FALSE, renamed |-> FALSE,
           renameFails |-> FALSE]

\* os.RemoveAll(tmpdir).
DirKept(d) == d
RemoveAll(d) == NoDir

Name(p) == sb[p].desc.digest
SbGoto(p, pc) == sb' = [sb EXCEPT ![p].pc = pc]
SbFail(p) == sb' = [sb EXCEPT ![p].pc = "cleanup", ![p].err = TRUE]

\* SaveBlob is called with a descriptor.
SaveBlobCall(p) ==
    /\ sb[p].pc = "idle"
    /\ \E desc \in BlobDescs : sb' = [sb EXCEPT ![p] = [sbIdle EXCEPT !.pc = "stat", !.desc = desc]]
    /\ UNCHANGED <<validateCachedLayers, layerFiles, tmpDirs, layersVars, storeVars, extraVars>>

\* os.Stat(name): without validation an existing file is returned as is.
SaveBlobStat(p) ==
    /\ sb[p].pc = "stat"
    /\ IF layerFiles[Name(p)] # Absent
       THEN IF ~validateCachedLayers THEN SbGoto(p, "done") ELSE SbGoto(p, "validate")
       ELSE SbGoto(p, "tempdir")
    /\ UNCHANGED <<validateCachedLayers, layerFiles, tmpDirs, layersVars, storeVars, extraVars>>

\* isLayerValid(name, desc.Digest), when validation is enabled.
SaveBlobValidate(p) ==
    /\ sb[p].pc = "validate"
    /\ IF isLayerValid(Name(p), sb[p].desc.digest) THEN SbGoto(p, "done") ELSE SbGoto(p, "tempdir")
    /\ UNCHANGED <<validateCachedLayers, layerFiles, tmpDirs, layersVars, storeVars, extraVars>>

\* ioutil.TempDir; defer os.RemoveAll(tmpdir).
SaveBlobTempDir(p) ==
    /\ sb[p].pc = "tempdir"
    /\ tmpDirs' = [tmpDirs EXCEPT ![TempDir(p)] = IF @ = NoDir THEN <<Absent>> ELSE @]
    /\ SbGoto(p, "open")
    /\ UNCHANGED <<validateCachedLayers, layerFiles, layersVars, storeVars, extraVars>>

\* r.reg.DownloadLayer: the request fails, or a reader is returned.
SaveBlobOpen(p) ==
    /\ sb[p].pc = "open"
    /\ \E ok \in BOOLEAN :
         IF ok THEN sb' = [sb EXCEPT ![p].pc = "create", ![p].opened = TRUE]
         ELSE sb' = [sb EXCEPT ![p].pc = "cleanup", ![p].err = TRUE, ![p].badStream = TRUE]
    /\ UNCHANGED <<validateCachedLayers, layerFiles, tmpDirs, layersVars, storeVars, extraVars>>

\* os.Create(tmpname).
SaveBlobCreate(p) ==
    /\ sb[p].pc = "create"
    /\ IF tmpDirs[TempDir(p)] = NoDir
       THEN SbFail(p) /\ UNCHANGED tmpDirs
       ELSE /\ tmpDirs' = [tmpDirs EXCEPT ![TempDir(p)] = << <<>> >>]
            /\ SbGoto(p, "copy")
    /\ UNCHANGED <<validateCachedLayers, layerFiles, layersVars, storeVars, extraVars>>

\* io.Copy(io.MultiWriter(f, verifier), reader), then the size and the
\* verifier checks: the registry delivers any bytes, and the stream may
\* end with a read error.
SaveBlobCopy(p) ==
    /\ sb[p].pc = "copy"
    /\ \E bytes \in Contents, readErr \in BOOLEAN :
         /\ tmpDirs' = [tmpDirs EXCEPT ![TempDir(p)] =
                           IF @ # NoDir /\ @[1] # Absent THEN <<bytes>> ELSE @]
         /\ LET n == Len(bytes)
                failed == \/ readErr
                          \/ n < sb[p].desc.size
                          \/ ~Verified(bytes, sb[p].desc.digest)
            IN  sb' = [sb EXCEPT ![p].pc = IF failed THEN "cleanup" ELSE "rename",
                                 ![p].err = failed, ![p].badStream = failed]
    /\ UNCHANGED <<validateCachedLayers, layerFiles, layersVars, storeVars, extraVars>>

\* os.Rename(tmpname, name).
SaveBlobRename(p) ==
    /\ sb[p].pc = "rename"
    /\ LET d == tmpDirs[TempDir(p)]
       IN  IF d = NoDir \/ d[1] = Absent \/ sb[p].renameFails
           THEN SbFail(p) /\ UNCHANGED <<layerFiles, tmpDirs>>
           ELSE /\ layerFiles' = [layerFiles EXCEPT ![Name(p)] = d[1]]
                /\ tmpDirs' = [tmpDirs EXCEPT ![TempDir(p)] = <<Absent>>]
                /\ sb' = [sb EXCEPT ![p].pc = "cleanup", ![p].renamed = TRUE]
    /\ UNCHANGED <<validateCachedLayers, layersVars, storeVars, extraVars>>

\* The deferred os.RemoveAll(tmpdir), on every return after TempDir.
SaveBlobCleanup(p) ==
    /\ sb[p].pc = "cleanup"
    /\ tmpDirs' = [tmpDirs EXCEPT ![TempDir(p)] = RemoveAll(@)]
    /\ SbGoto(p, "done")
    /\ UNCHANGED <<validateCachedLayers, layerFiles, layersVars, storeVars, extraVars>>

\* The caller takes the result; the caller may call again.
SaveBlobReturn(p) ==
    /\ sb[p].pc = "done"
    /\ sb' = [sb EXCEPT ![p] = sbIdle]
    /\ UNCHANGED <<validateCachedLayers, layerFiles, tmpDirs, layersVars, storeVars, extraVars>>

SaveBlob(p) ==
    \/ SaveBlobCall(p)
    \/ SaveBlobStat(p)
    \/ SaveBlobValidate(p)
    \/ SaveBlobTempDir(p)
    \/ SaveBlobOpen(p)
    \/ SaveBlobCreate(p)
    \/ SaveBlobCopy(p)
    \/ SaveBlobRename(p)
    \/ SaveBlobCleanup(p)
    \/ SaveBlobReturn(p)

(***************************************************************************)
(* The image store (pkg/store/store.go): the cache and the layer tasks.    *)
(*                                                                         *)
(* A layer task is one iteration of doPull's loop (SaveBlob, then the      *)
(* extraction check, unpackLayer and createShortLink) or one goroutine of  *)
(* Mount (the same without SaveBlob).  All layer tasks of a Pull may run   *)
(* at once, as they do with parallelism >= len(layers); the worker pool    *)
(* and its channels are not part of this specification.  SaveBlob is one   *)
(* step here: its only effect outside its own temporary directory is the   *)
(* rename into layers/.                                                    *)
(***************************************************************************)
NoTree == {-1}
NoToken == 0
NoHex == 0
NoId == ""

\* The range of randomString().
NTokens == 2
Tokens == 1..NTokens

LayerHexes == {Hash(c) : c \in BlobContents}
BlobOf(h) == CHOOSE c \in Contents : Hash(c) = h

\* A schema-2 descriptor carries the blob's length, a schema-1 one carries 0.
Desc2(c) == Descriptor(Hash(c), Len(c))
Desc1(c) == Descriptor(Hash(c), 0)

\* The images of the registry: two layers, the same layer twice, a layer
\* whose tar is corrupt, and a schema-1 image with a repeated reference.
StoreImages ==
    { SchemaV2(<<Desc2(GoodBlob), Desc2(SmallBlob)>>),
      SchemaV2(<<Desc2(GoodBlob), Desc2(GoodBlob)>>),
      SchemaV2(<<Desc2(SmallBlob), Desc2(BadBlob)>>),
      SchemaV1(<<Desc1(SmallBlob), Desc1(GoodBlob), Desc1(SmallBlob)>>) }

\* Manifest.ID(): "v1:<repo>:<tag>" or "v2:<config digest>".
ID(m) == IF m.hasV1 THEN "v1:repo:tag" ELSE IF m.hasV2 THEN "v2:config" ELSE "panic"

LayerSlots == {1, 2}
PullTasks == {<<"pull", i>> : i \in LayerSlots}
MountTasks == {<<"mount", i>> : i \in LayerSlots}
Tasks == PullTasks \cup MountTasks

ImageLayers == Layers(image)
Active(S) == {t \in S : t[2] <= Len(ImageLayers)}
\* layer.Digest.Encoded() of the task's layer.
Dgst(t) == ImageLayers[t[2]].digest

\* A task's locals.  err is the error it carries; opened, extracted and tok
\* record that SaveBlob opened a blob stream, that unpackLayer was called,
\* and the token createShortLink generated; untarFailed that archive.Untar
\* returned an error; lostRace that a call failed on what another task on
\* the same digest had put in its way; writeFails that the file system
\* will refuse the task's write of the .link file.
taskIdle == [pc |-> "idle", err |-> FALSE, dlFailed |-> FALSE, opened |-> FALSE,
             extracted |-> FALSE, untarFailed |-> FALSE, lostRace |-> FALSE,
             k |-> 0, tok |-> NoToken, writeFails |-> FALSE]

Goto(t, pc) == task' = [task EXCEPT ![t].pc = pc]

\* A layer is fully extracted: every entry of its blob is in the tree.
Complete(h, tree) ==
    LET c == BlobOf(h)
    IN  /\ tree = 1..Len(c)
        /\ \A i \in 1..Len(c) : c[i] = 1

\* SaveBlob(repo, s.layerDir, layer) as one step: the cached file is
\* returned, or the blob is downloaded, verified and renamed in place, or
\* the download fails.
SaveBlobAlwaysDownloads(h) == FALSE
SaveBlobCached(h) ==
    /\ layerFiles[h] # Absent
    /\ (~validateCachedLayers \/ isLayerValid(h, h))

TaskSaveBlob(t) ==
    /\ task[t].pc = "save"
    /\ LET h == Dgst(t)
           desc == ImageLayers[t[2]]
       IN  IF SaveBlobCached(h)
           THEN Goto(t, "stat") /\ UNCHANGED layerFiles
           ELSE \E bytes \in {BlobOf(h), <<>>} :
                  IF Len(bytes) >= desc.size /\ Verified(bytes, desc.digest)
                  THEN /\ layerFiles' = [layerFiles EXCEPT ![h] = bytes]
                       /\ task' = [task EXCEPT ![t].pc = "stat", ![t].opened = TRUE]
                  ELSE /\ task' = [task EXCEPT ![t].pc = "done", ![t].opened = TRUE,
                                               ![t].err = TRUE, ![t].dlFailed = TRUE]
                       /\ UNCHANGED layerFiles
    /\ UNCHANGED <<validateCachedLayers, tmpDirs, sb, layersVars, cacheVars, extraVars>>
    /\ UNCHANGED <<image, pull, mount, snap>>

\* _, err := os.Stat(into) succeeds.
OverlayNeverExists(h) == FALSE
OverlayExists(h) == ovl[h] # NoTree

\* os.Stat(into): an existing overlays/<hex> skips unpackLayer.
TaskStat(t) ==
    /\ task[t].pc = "stat"
    /\ IF OverlayExists(Dgst(t))
       THEN Goto(t, "linkstat")
       ELSE task' = [task EXCEPT ![t].pc = "mkdir", ![t].extracted = TRUE]
    /\ UNCHANGED <<extraVars, layersVars, blobVars, cacheVars, image, pull, mount, snap>>

\* unpackLayer, atomic: os.Open(path), then os.Mkdir(tmpdir) of the
\* dot-prefixed sibling; the removal of tmpdir is deferred only now.
TaskMkdir(t) ==
    /\ task[t].pc = "mkdir"
    /\ LET h == Dgst(t)
       IN  IF layerFiles[h] = Absent
           THEN /\ task' = [task EXCEPT ![t].pc = "done", ![t].err = TRUE]
                /\ UNCHANGED ovlTmp
           ELSE IF ovlTmp[h] # NoTree
           THEN /\ task' = [task EXCEPT ![t].pc = "done", ![t].err = TRUE, ![t].lostRace = TRUE]
                /\ UNCHANGED ovlTmp
           ELSE /\ ovlTmp' = [ovlTmp EXCEPT ![h] = {}]
                /\ Goto(t, IF Len(layerFiles[h]) = 0 THEN "rename" ELSE "untar")
    /\ UNCHANGED <<extraVars, layersVars, blobVars, image, pull, mount, snap>>
    /\ UNCHANGED <<ovl, linkFile, symlinks, manifestFiles, manifestLink, configFiles>>

\* archive.Untar(reader, dest, ...), one tar entry per step.  A corrupt
\* header ends it with an error.  When dest was removed under it, the
\* library either fails or creates dest again for the entry.
TaskUntar(t) ==
    /\ task[t].pc = "untar"
    /\ LET h == Dgst(t)
           c == layerFiles[h]
           j == task[t].k + 1
           fail == task' = [task EXCEPT ![t].pc = "rename", ![t].untarFailed = TRUE]
           extract(tree) ==
               /\ ovlTmp' = [ovlTmp EXCEPT ![h] = tree \cup {j}]
               /\ task' = [task EXCEPT ![t].k = j,
                                       ![t].pc = IF j = Len(c) THEN "rename" ELSE "untar"]
       IN  IF c[j] = 0
           THEN fail /\ UNCHANGED ovlTmp
           ELSE IF ovlTmp[h] = NoTree
           THEN \E again \in BOOLEAN :
                   IF again THEN extract({}) ELSE fail /\ UNCHANGED ovlTmp
           ELSE extract(ovlTmp[h])
    /\ UNCHANGED <<extraVars, layersVars, blobVars, image, pull, mount, snap>>
    /\ UNCHANGED <<ovl, linkFile, symlinks, manifestFiles, manifestLink, configFiles>>

\* os.Rename(src, dst) on directories: fails when src is gone or dst is a
\* directory.  Go's os.Rename returns EEXIST for a new name that is a
\* directory, empty or not; rename(2) alone would replace an empty one.
RenameReplacesEmptyDir(src, dst) == src = NoTree \/ (dst # NoTree /\ dst # {})
RenameFails(src, dst) == src = NoTree \/ dst # NoTree

\* What unpackLayer returns: the error of archive.Untar is overwritten by
\* the result of os.Rename in atomic mode and dropped otherwise.
unpackLayerReturn(atomic, untarErr, renameErr) == atomic /\ renameErr

\* if atomic { err = os.Rename(dest, into) }, whatever archive.Untar returned.
TaskRename(t) ==
    /\ task[t].pc = "rename"
    /\ LET h == Dgst(t)
           renameErr == RenameFails(ovlTmp[h], ovl[h])
       IN  /\ IF ~renameErr
              THEN /\ ovl' = [ovl EXCEPT ![h] = ovlTmp[h]]
                   /\ ovlTmp' = [ovlTmp EXCEPT ![h] = NoTree]
              ELSE UNCHANGED <<ovl, ovlTmp>>
           /\ task' = [task EXCEPT
                  ![t].pc = "cleanup",
                  ![t].err = unpackLayerReturn(TRUE, task[t].untarFailed, renameErr),
                  ![t].lostRace = renameErr]
    /\ UNCHANGED <<extraVars, layersVars, blobVars, image, pull, mount, snap>>
    /\ UNCHANGED <<linkFile, symlinks, manifestFiles, manifestLink, configFiles>>

\* The deferred os.RemoveAll(tmpdir), as unpackLayer returns.
TaskCleanup(t) ==
    /\ task[t].pc = "cleanup"
    /\ ovlTmp' = [ovlTmp EXCEPT ![Dgst(t)] = NoTree]
    /\ Goto(t, IF task[t].err THEN "done" ELSE "linkstat")
    /\ UNCHANGED <<extraVars, layersVars, blobVars, image, pull, mount, snap>>
    /\ UNCHANGED <<ovl, linkFile, symlinks, manifestFiles, manifestLink, configFiles>>

\* createShortLink: os.Stat(savedLink); an existing .link file ends it.
TaskLinkStat(t) ==
    /\ task[t].pc = "linkstat"
    /\ Goto(t, IF linkFile[Dgst(t)] # NoToken THEN "done" ELSE "symlink")
    /\ UNCHANGED <<extraVars, layersVars, blobVars, cacheVars, image, pull, mount, snap>>

\* createShortLink: link := randomString(); os.Symlink(path, link).  A
\* failure (the name exists) is logged and the loop body goes on.
TaskSymlink(t) ==
    /\ task[t].pc = "symlink"
    /\ \E tok \in Tokens :
         /\ symlinks' = [symlinks EXCEPT ![tok] = IF @ = NoHex THEN Dgst(t) ELSE @]
         /\ task' = [task EXCEPT ![t].pc = "writelink", ![t].tok = tok]
    /\ UNCHANGED <<extraVars, layersVars, blobVars, image, pull, mount, snap>>
    /\ UNCHANGED <<ovl, ovlTmp, linkFile, manifestFiles, manifestLink, configFiles>>

\* createShortLink: util.AtomicWriteFile(savedLink, base(link)); return nil.
\* When the write fails: os.Remove(link); return err.
TaskWriteLink(t) ==
    /\ task[t].pc = "writelink"
    /\ IF task[t].writeFails
       THEN /\ symlinks' = [symlinks EXCEPT ![task[t].tok] = NoHex]
            /\ task' = [task EXCEPT ![t].pc = "done", ![t].tok = NoToken, ![t].err = TRUE]
            /\ UNCHANGED linkFile
       ELSE /\ linkFile' = [linkFile EXCEPT ![Dgst(t)] = task[t].tok]
            /\ task' = [task EXCEPT ![t].pc = "done", ![t].tok = NoToken]
            /\ UNCHANGED symlinks
    /\ UNCHANGED <<extraVars, layersVars, blobVars, image, pull, mount, snap>>
    /\ UNCHANGED <<ovl, ovlTmp, manifestFiles, manifestLink, configFiles>>

LayerTask(t) ==
    \/ TaskStat(t)
    \/ TaskMkdir(t)
    \/ TaskUntar(t)
    \/ TaskRename(t)
    \/ TaskCleanup(t)
    \/ TaskLinkStat(t)
    \/ TaskSymlink(t)
    \/ TaskWriteLink(t)

(***************************************************************************)
(* Store.Pull and Store.Mount.                                             *)
(***************************************************************************)
pullIdle == [pc |-> "idle", err |-> FALSE, id |-> NoId, round |-> 1, cfgFetched |-> FALSE]
mountIdle == [pc |-> "idle", err |-> FALSE, i |-> 0, lowers |-> <<>>, called |-> FALSE]

\* len(layers) results were read: every layer task has sent its result.
NoneAwaited(S) == TRUE
AllDone(S) == \A t \in Active(S) : task[t].pc = "done"
\* result (err in Mount) after the results were read: not nil when any
\* task sent an error, multierror.Append(result, err).
ErrorsIgnored(S) == FALSE
AnyErr(S) == \E t \in Active(S) : task[t].err

Start(S, pc) == task' = [t \in Tasks |-> IF t \in Active(S) THEN [taskIdle EXCEPT !.pc = pc] ELSE task[t]]

\* Pull: ParseImageSpec, then manifest.Fetch; on success pullLayers starts
\* a task per layer of mfest.Layers().
PullFetch ==
    /\ pull.pc = "idle"
    /\ \E ok \in BOOLEAN :
         IF ok
         THEN pull' = [pull EXCEPT !.pc = "layers"] /\ Start(PullTasks, "save")
         ELSE pull' = [pull EXCEPT !.pc = "done", !.err = TRUE] /\ UNCHANGED task
    /\ UNCHANGED <<extraVars, layersVars, blobVars, cacheVars, image, mount, snap>>

\* pullLayers: len(layers) results are read, the errors appended to result;
\* Pull returns "" and the error when result is not nil.
PullCollect ==
    /\ pull.pc = "layers"
    /\ AllDone(PullTasks)
    /\ pull' = IF AnyErr(PullTasks)
               THEN [pull EXCEPT !.pc = "done", !.err = TRUE]
               ELSE [pull EXCEPT !.pc = "savefile"]
    /\ UNCHANGED <<extraVars, layersVars, blobVars, cacheVars, image, task, mount, snap>>

\* Manifest.Save: the payload is written to manifests/<id> unless it exists.
PullSaveFile ==
    /\ pull.pc = "savefile"
    /\ manifestFiles' = manifestFiles \cup {ID(image)}
    /\ pull' = [pull EXCEPT !.pc = "rmlink"]
    /\ UNCHANGED <<extraVars, layersVars, blobVars, image, task, mount, snap>>
    /\ UNCHANGED <<ovl, ovlTmp, linkFile, symlinks, manifestLink, configFiles>>

\* Manifest.Save: _ = os.Remove(link).
PullRemoveLink ==
    /\ pull.pc = "rmlink"
    /\ manifestLink' = NoId
    /\ pull' = [pull EXCEPT !.pc = "symlink"]
    /\ UNCHANGED <<extraVars, layersVars, blobVars, image, task, mount, snap>>
    /\ UNCHANGED <<ovl, ovlTmp, linkFile, symlinks, manifestFiles, configFiles>>

\* Manifest.Save: os.Symlink(target, link).
PullSymlink ==
    /\ pull.pc = "symlink"
    /\ IF manifestLink = NoId
       THEN /\ manifestLink' = ID(image)
            /\ pull' = [pull EXCEPT !.pc = "config"]
       ELSE /\ pull' = [pull EXCEPT !.pc = "done", !.err = TRUE]
            /\ UNCHANGED manifestLink
    /\ UNCHANGED <<extraVars, layersVars, blobVars, image, task, mount, snap>>
    /\ UNCHANGED <<ovl, ovlTmp, linkFile, symlinks, manifestFiles, configFiles>>

\* Pull: os.Stat(configPath); when it is missing saveConfig fetches the
\* config (schema-2: GetBlob from the registry, which may fail) and writes
\* it.  Pull returns the image id.
PullConfig ==
    /\ pull.pc = "config"
    /\ IF ID(image) \in configFiles
       THEN /\ pull' = [pull EXCEPT !.pc = "done", !.id = ID(image)]
            /\ UNCHANGED configFiles
       ELSE \E ok \in BOOLEAN :
              IF ok \/ image.hasV1
              THEN /\ configFiles' = configFiles \cup {ID(image)}
                   /\ pull' = [pull EXCEPT !.pc = "done", !.id = ID(image), !.cfgFetched = TRUE]
              ELSE /\ pull' = [pull EXCEPT !.pc = "done", !.err = TRUE, !.cfgFetched = TRUE]
                   /\ UNCHANGED configFiles
    /\ UNCHANGED <<extraVars, layersVars, blobVars, image, task, mount, snap>>
    /\ UNCHANGED <<ovl, ovlTmp, linkFile, symlinks, manifestFiles, manifestLink>>

Cache == <<layerFiles, ovl, ovlTmp, linkFile, symlinks, manifestFiles, manifestLink, configFiles>>

\* Pull is called a second time after it returned (SpecIdem).
PullAgain ==
    /\ pull.pc = "done"
    /\ pull.round = 1
    /\ pull' = [pullIdle EXCEPT !.round = 2]
    /\ task' = [t \in Tasks |-> taskIdle]
    /\ snap' = <<~pull.err, Cache>>
    /\ UNCHANGED <<extraVars, layersVars, blobVars, cacheVars, image, mount>>

\* Mount's directories: os.MkdirAll(dir) and util.IsEmptyDir(dir).
DirStates == {"absent", "empty", "nonempty"}
MountDirNames == {"dest", "upper", "work"}
MkdirAll(dirs, d) == [dirs EXCEPT ![d] = IF @ = "absent" THEN "empty" ELSE @]
IsEmptyDir(dirs, d) == dirs[d] = "empty"

\* The directory Mount tests after it created work: upper, once more.
DirCheckedAfterWork == "upper"

\* Mount, lines 268-288: the directories as Mount leaves them, and whether
\* it returns an error.
MountDirs(dirs) ==
    LET d1 == MkdirAll(dirs, "dest")
        d2 == MkdirAll(d1, "upper")
        d3 == MkdirAll(d2, "work")
    IN  IF ~IsEmptyDir(d1, "dest") THEN [dirs |-> d1, err |-> TRUE]
        ELSE IF ~IsEmptyDir(d2, "upper") THEN [dirs |-> d2, err |-> TRUE]
        ELSE IF ~IsEmptyDir(d3, DirCheckedAfterWork) THEN [dirs |-> d3, err |-> TRUE]
        ELSE [dirs |-> d3, err |-> FALSE]

\* Mount: ParseImageSpec, manifest.Load (the repo:ref link must be there),
\* the mount directories, then one goroutine per layer.
MountLoad ==
    /\ mount.pc = "idle"
    /\ IF manifestLink = NoId
       THEN mount' = [mount EXCEPT !.pc = "done", !.err = TRUE] /\ UNCHANGED <<task, mdirs>>
       ELSE /\ mdirs' = MountDirs(mdirs).dirs
            /\ IF MountDirs(mdirs).err
               THEN mount' = [mount EXCEPT !.pc = "done", !.err = TRUE] /\ UNCHANGED task
               ELSE mount' = [mount EXCEPT !.pc = "tasks"] /\ Start(MountTasks, "stat")
    /\ UNCHANGED <<otherVars, scfg, flat, layersVars, blobVars, cacheVars, image, pull, snap>>

\* Mount: len(layers) results are read from ch; any error ends Mount.
MountCollect ==
    /\ mount.pc = "tasks"
    /\ AllDone(MountTasks)
    /\ mount' = IF AnyErr(MountTasks)
                THEN [mount EXCEPT !.pc = "done", !.err = TRUE]
                ELSE [mount EXCEPT !.pc = "read", !.i = Len(ImageLayers)]
    /\ UNCHANGED <<extraVars, layersVars, blobVars, cacheVars, image, task, pull, snap>>

\* The index Mount's loop over the .link files starts at and its step:
\* for i := len(layers) - 1; i >= 0; i--.
LowerdirBottomUp(n, i) == n + 1 - i
LowerdirIndex(n, i) == i

\* Mount: ioutil.ReadFile(<hex>.link) of layer i, appended to layerDirs.
MountReadLink ==
    /\ mount.pc = "read"
    /\ LET h == ImageLayers[LowerdirIndex(Len(ImageLayers), mount.i)].digest
       IN  IF linkFile[h] = NoToken
           THEN mount' = [mount EXCEPT !.pc = "done", !.err = TRUE]
           ELSE mount' = [mount EXCEPT !.lowers = Append(@, linkFile[h]),
                                       !.i = @ - 1,
                                       !.pc = IF mount.i = 1 THEN "exec" ELSE "read"]
    /\ UNCHANGED <<extraVars, layersVars, blobVars, cacheVars, image, task, pull, snap>>

\* Mount: exec.Command("mount", "-t", "overlay", ..., lowerdir=<lowers>).
MountExec ==
    /\ mount.pc = "exec"
    /\ \E ok \in BOOLEAN : mount' = [mount EXCEPT !.pc = "done", !.called = TRUE, !.err = ~ok]
    /\ UNCHANGED <<extraVars, layersVars, blobVars, cacheVars, image, task, pull, snap>>

Pull == PullFetch \/ PullCollect \/ PullSaveFile \/ PullRemoveLink \/ PullSymlink \/ PullConfig
Mount == MountLoad \/ MountCollect \/ MountReadLink \/ MountExec

\* SaveConfig's locals: err is the error it returns, dest the id of the
\* image whose config the file at dest holds, getBlob that saveConfig asked
\* the registry for the config blob, getBlobFailed that the request failed.
scfgIdle == [pc |-> "idle", err |-> FALSE, dest |-> NoId, getBlob |-> FALSE,
             getBlobFailed |-> FALSE]

\* SaveConfig(image, dest): manifest.Load; configs/<id> is copied to dest
\* when it can be read; otherwise saveConfig(mfest, dest) takes the config
\* from the manifest (schema 1: History[0]; schema 2: GetBlob of the config
\* descriptor from the registry) and writes it to dest.
SaveConfig ==
    /\ scfg.pc = "idle"
    /\ IF manifestLink = NoId
       THEN scfg' = [scfg EXCEPT !.pc = "done", !.err = TRUE]
       ELSE IF manifestLink \in configFiles
       THEN scfg' = [scfg EXCEPT !.pc = "done", !.dest = manifestLink]
       ELSE IF image.hasV1
       THEN scfg' = [scfg EXCEPT !.pc = "done", !.dest = manifestLink]
       ELSE \E ok \in BOOLEAN :
              scfg' = [scfg EXCEPT !.pc = "done", !.getBlob = TRUE, !.getBlobFailed = ~ok,
                                   !.err = ~ok, !.dest = IF ok THEN manifestLink ELSE NoId]
    /\ UNCHANGED <<otherVars, mdirs, flat, layersVars, blobVars, cacheVars, opVars>>

(***************************************************************************)
(* Store.pullLayers and the doPull workers (pkg/store/store.go).  What a   *)
(* worker does with a layer (SaveBlob, unpackLayer, createShortLink) is    *)
(* one step here, failing for the layers in `failing`.                     *)
(***************************************************************************)
\* The largest number of layers and the largest parallelism.
MaxLayers == 2
MaxPar == 2

PoolLayers == 1..MaxLayers
PoolWorkers == 1..(IF MaxPar > MaxLayers THEN MaxPar ELSE MaxLayers)
Parallelisms == -1..MaxPar

\* NewStore: if parallelism < 0 { parallelism = 1 }.
parallelDownloads(p) == IF p < 0 THEN 1 ELSE p

\* pullLayers: if parallelism <= 0 { parallelism = len(layers) }.
OneWorkerPerLayer(pd, n) == n
NumWorkers(pd, n) == IF pd <= 0 THEN n ELSE pd

\* doPull: after a failed layer the error is sent and the loop continues.
fallsThroughAfterErr(err) == FALSE
continueAfterErr(err) == TRUE

\* make(chan distribution.Descriptor, len(layers)) and make(chan error,
\* len(layers)): the capacity of layerCh and of resultCh.
ChanCap(n) == n

workerIdle == [pc |-> "none", layer |-> 0, err |-> FALSE]
plIdle == [pc |-> "idle", spawned |-> 0, sent |-> 0, i |-> 0, read |-> <<>>, result |-> <<>>]

\* go s.doPull(repo, wg, layerCh, resultCh), parallelism times.
PlSpawn ==
    /\ pl.pc = "spawn"
    /\ IF pl.spawned < NumWorkers(parallelDownloads(parallelism), nLayers)
       THEN /\ worker' = [worker EXCEPT ![pl.spawned + 1].pc = "spawned"]
            /\ pl' = [pl EXCEPT !.spawned = @ + 1]
       ELSE /\ pl' = [pl EXCEPT !.pc = "feed"]
            /\ UNCHANGED worker
    /\ UNCHANGED <<parallelism, nLayers, failing, layerCh, layerChClosed, resultCh, wg, taken>>
    /\ UNCHANGED <<layersVars, blobVars, storeVars, fetchVars, saveVars, raceVars, parseVars, restVars>>

\* for _, layer := range layers { layerCh <- layer }
PlFeed ==
    /\ pl.pc = "feed"
    /\ IF pl.sent < nLayers
       THEN /\ Len(layerCh) < ChanCap(nLayers)
            /\ layerCh' = Append(layerCh, pl.sent + 1)
            /\ pl' = [pl EXCEPT !.sent = @ + 1]
       ELSE /\ pl' = [pl EXCEPT !.pc = "collect"]
            /\ UNCHANGED layerCh
    /\ UNCHANGED <<parallelism, nLayers, failing, layerChClosed, resultCh, worker, wg, taken>>
    /\ UNCHANGED <<layersVars, blobVars, storeVars, fetchVars, saveVars, raceVars, parseVars, restVars>>

\* for i := 0; i < len(layers); i++ { err := <-resultCh; ... }
PlCollect ==
    /\ pl.pc = "collect"
    /\ IF pl.i < nLayers
       THEN /\ resultCh # <<>>
            /\ resultCh' = Tail(resultCh)
            /\ pl' = [pl EXCEPT !.i = @ + 1,
                                !.read = Append(@, Head(resultCh)),
                                !.result = IF Head(resultCh)[2]
                                           THEN Append(@, Head(resultCh)[1]) ELSE @]
       ELSE /\ pl' = [pl EXCEPT !.pc = "close"]
            /\ UNCHANGED resultCh
    /\ UNCHANGED <<parallelism, nLayers, failing, layerCh, layerChClosed, worker, wg, taken>>
    /\ UNCHANGED <<layersVars, blobVars, storeVars, fetchVars, saveVars, raceVars, parseVars, restVars>>

\* close(layerCh)
PlClose ==
    /\ pl.pc = "close"
    /\ layerChClosed' = TRUE
    /\ pl' = [pl EXCEPT !.pc = "wait"]
    /\ UNCHANGED <<parallelism, nLayers, failing, layerCh, resultCh, worker, wg, taken>>
    /\ UNCHANGED <<layersVars, blobVars, storeVars, fetchVars, saveVars, raceVars, parseVars, restVars>>

\* wg.Wait(): with the counter at zero it returns at once, and pullLayers
\* returns result; otherwise the caller is counted as a waiter and sleeps.
PlWait ==
    /\ pl.pc = "wait"
    /\ pl' = [pl EXCEPT !.pc = IF wg = 0 THEN "done" ELSE "blocked"]
    /\ UNCHANGED <<parallelism, nLayers, failing, layerCh, layerChClosed, resultCh, worker, wg, taken>>
    /\ UNCHANGED <<layersVars, blobVars, storeVars, fetchVars, saveVars, raceVars, parseVars, restVars>>

\* wg.Wait() wakes up after the counter reached zero: a counter that is
\* not zero any more is "WaitGroup is reused before previous Wait has
\* returned", a panic.
PlWake ==
    /\ pl.pc = "woken"
    /\ pl' = [pl EXCEPT !.pc = IF wg = 0 THEN "done" ELSE "panic"]
    /\ UNCHANGED <<parallelism, nLayers, failing, layerCh, layerChClosed, resultCh, worker, wg, taken>>
    /\ UNCHANGED <<layersVars, blobVars, storeVars, fetchVars, saveVars, raceVars, parseVars, restVars>>

\* doPull: wg.Add(1), the first statement the goroutine runs.  An Add that
\* lifts the counter from zero while a waiter is counted is "WaitGroup
\* misuse: Add called concurrently with Wait", a panic.
WorkerAdd(w) ==
    /\ worker[w].pc = "spawned"
    /\ wg' = wg + 1
    /\ IF pl.pc = "blocked" /\ wg = 0
       THEN pl' = [pl EXCEPT !.pc = "panic"] /\ UNCHANGED worker
       ELSE worker' = [worker EXCEPT ![w].pc = "recv"] /\ UNCHANGED pl
    /\ UNCHANGED <<parallelism, nLayers, failing, layerCh, layerChClosed, resultCh, taken>>
    /\ UNCHANGED <<layersVars, blobVars, storeVars, fetchVars, saveVars, raceVars, parseVars, restVars>>

\* doPull: for layer := range layers: a descriptor, or the end of the loop
\* when the channel is closed and empty.
WorkerRecv(w) ==
    /\ worker[w].pc = "recv"
    /\ layerCh # <<>> \/ layerChClosed
    /\ IF layerCh # <<>>
       THEN /\ layerCh' = Tail(layerCh)
            /\ worker' = [worker EXCEPT ![w].pc = "work", ![w].layer = Head(layerCh)]
            /\ taken' = [taken EXCEPT ![Head(layerCh)] = @ + 1]
       ELSE /\ worker' = [worker EXCEPT ![w].pc = "exit"]
            /\ UNCHANGED <<layerCh, taken>>
    /\ UNCHANGED <<parallelism, nLayers, failing, layerChClosed, resultCh, wg, pl>>
    /\ UNCHANGED <<layersVars, blobVars, storeVars, fetchVars, saveVars, raceVars, parseVars, restVars>>

\* doPull: SaveBlob, unpackLayer, createShortLink of the layer.
WorkerWork(w) ==
    /\ worker[w].pc = "work"
    /\ worker' = [worker EXCEPT ![w].pc = "send", ![w].err = worker[w].layer \in failing]
    /\ UNCHANGED <<parallelism, nLayers, failing, layerCh, layerChClosed, resultCh, wg, taken, pl>>
    /\ UNCHANGED <<layersVars, blobVars, storeVars, fetchVars, saveVars, raceVars, parseVars, restVars>>

\* doPull: results <- err (or nil), blocking while resultCh is full.
WorkerSend(w) ==
    /\ worker[w].pc = "send"
    /\ Len(resultCh) < ChanCap(nLayers)
    /\ resultCh' = Append(resultCh, <<worker[w].layer, worker[w].err>>)
    /\ worker' = IF worker[w].err /\ ~continueAfterErr(worker[w].err)
                 THEN [worker EXCEPT ![w].err = FALSE]
                 ELSE [worker EXCEPT ![w].pc = "recv", ![w].layer = 0, ![w].err = FALSE]
    /\ UNCHANGED <<parallelism, nLayers, failing, layerCh, layerChClosed, wg, taken, pl>>
    /\ UNCHANGED <<layersVars, blobVars, storeVars, fetchVars, saveVars, raceVars, parseVars, restVars>>

\* doPull: the deferred wg.Done(): the counter is decremented; the call
\* that brings it to zero while a waiter is counted goes on to wake it.
WorkerDone(w) ==
    /\ worker[w].pc = "exit"
    /\ wg' = wg - 1
    /\ worker' = [worker EXCEPT ![w].pc = IF wg = 1 /\ pl.pc = "blocked"
                                         THEN "release" ELSE "exited"]
    /\ UNCHANGED <<parallelism, nLayers, failing, layerCh, layerChClosed, resultCh, taken, pl>>
    /\ UNCHANGED <<layersVars, blobVars, storeVars, fetchVars, saveVars, raceVars, parseVars, restVars>>

\* wg.Done(), second half: the waiter is released.
WorkerRelease(w) ==
    /\ worker[w].pc = "release"
    /\ pl' = [pl EXCEPT !.pc = "woken"]
    /\ worker' = [worker EXCEPT ![w].pc = "exited"]
    /\ UNCHANGED <<parallelism, nLayers, failing, layerCh, layerChClosed, resultCh, wg, taken>>
    /\ UNCHANGED <<layersVars, blobVars, storeVars, fetchVars, saveVars, raceVars, parseVars, restVars>>

\* A panic ends the process and every goroutine with it.
doPull(w) ==
    /\ pl.pc # "panic"
    /\ \/ WorkerAdd(w)
       \/ WorkerRecv(w)
       \/ WorkerWork(w)
       \/ WorkerSend(w)
       \/ WorkerDone(w)
       \/ WorkerRelease(w)
pullLayers == PlSpawn \/ PlFeed \/ PlCollect \/ PlClose \/ PlWait \/ PlWake

(***************************************************************************)
(* manifest.Fetch (pkg/manifest/manifest.go) over Registry.ManifestV2 and  *)
(* Registry.Manifest (vendor/.../docker-registry-client/registry).         *)
(*                                                                         *)
(* The registry answers the schema-2 request for the tag with an error, a  *)
(* manifest list, a schema-2 manifest, a body of schema version 1 under    *)
(* the schema-2 media type, or another media type; the request for a       *)
(* digest named in a manifest list with any of these but a list; and the   *)
(* schema-1 request with a signed manifest or an error.                    *)
(***************************************************************************)
\* The largest number of entries of a manifest list.
MaxEntries == 2

GOOS == "linux"
GOARCH == "amd64"

Platforms ==
    {[isNil |-> TRUE, OS |-> "", Architecture |-> ""]} \cup
    {[isNil |-> FALSE, OS |-> o, Architecture |-> a] :
        o \in {GOOS, "windows"}, a \in {GOARCH, "arm64"}}
IndexDigests == 1..MaxEntries
IndexEntries == [Platform : Platforms, Digest : IndexDigests]
Indexes == SeqsUpTo(IndexEntries, MaxEntries)

PlainKinds == {"error", "schema2", "schema2v1", "othertype"}
Response(kind, index) == [kind |-> kind, Manifests |-> index]
Registries ==
    [tag : {Response(k, <<>>) : k \in PlainKinds} \cup {Response("list", ix) : ix \in Indexes},
     byDigest : [IndexDigests -> PlainKinds],
     v1ok : BOOLEAN]
NoRegistry == [tag |-> Response("error", <<>>), byDigest |-> [d \in IndexDigests |-> "error"],
               v1ok |-> FALSE]

\* ManifestV2: the entry the loop over index.Manifests returns on, 0 if none.
RECURSIVE FirstMatch(_, _)
FirstMatch(ms, i) ==
    IF i > Len(ms) THEN 0
    ELSE IF \/ ms[i].Platform.isNil
            \/ ms[i].Platform.OS # GOOS
            \/ ms[i].Platform.Architecture # GOARCH
         THEN FirstMatch(ms, i + 1)
         ELSE i

v2Err == [err |-> TRUE, SchemaVersion |-> 0]
v2Ok(version) == [err |-> FALSE, SchemaVersion |-> version]

\* Registry.ManifestV2 on a response that is no manifest list.
ManifestV2Plain(kind) ==
    CASE kind = "schema2" -> v2Ok(2)
      [] kind = "schema2v1" -> v2Ok(1)
      [] OTHER -> v2Err

\* Registry.ManifestV2(repository, reference).
ManifestV2(reg) ==
    IF reg.tag.kind = "list"
    THEN LET i == FirstMatch(reg.tag.Manifests, 1)
         IN  IF i = 0 THEN v2Err
             ELSE ManifestV2Plain(reg.byDigest[reg.tag.Manifests[i].Digest])
    ELSE ManifestV2Plain(reg.tag.kind)

fetchIdle == [pc |-> "idle", v2 |-> v2Err, hasV1 |-> FALSE, hasV2 |-> FALSE, err |-> FALSE]

\* Fetch: manifestv2, err := reg.ManifestV2(image, tag)
FetchV2 ==
    /\ fetch.pc = "v2"
    /\ LET r == ManifestV2(registry)
       IN  fetch' = [fetch EXCEPT !.v2 = r,
                                  !.pc = IF r.err \/ r.SchemaVersion = 1 THEN "v1" ELSE "return"]
    /\ UNCHANGED <<registry, layersVars, blobVars, storeVars, poolVars, saveVars, raceVars, parseVars, restVars>>

\* Fetch: manifestv1, err := reg.ManifestV1(image, tag); return nil, err
FetchV1 ==
    /\ fetch.pc = "v1"
    /\ fetch' = IF registry.v1ok
                THEN [fetch EXCEPT !.hasV1 = TRUE, !.pc = "return"]
                ELSE [fetch EXCEPT !.err = TRUE, !.pc = "done"]
    /\ UNCHANGED <<registry, layersVars, blobVars, storeVars, poolVars, saveVars, raceVars, parseVars, restVars>>

\* Fetch: manifest.ManifestV2 = manifestv2; return &manifest, nil
FetchReturn ==
    /\ fetch.pc = "return"
    /\ fetch' = [fetch EXCEPT !.hasV2 = ~fetch.v2.err, !.pc = "done"]
    /\ UNCHANGED <<registry, layersVars, blobVars, storeVars, poolVars, saveVars, raceVars, parseVars, restVars>>

Fetch == FetchV2 \/ FetchV1 \/ FetchReturn

(***************************************************************************)
(* The repo:ref link of Manifest.Save (pkg/manifest/manifest.go).  A path  *)
(* is the sequence of its elements, "/" first when it is absolute; the     *)
(* last element of the link's path is the pair <<segment, tag>> standing   *)
(* for "segment:tag".                                                      *)
(***************************************************************************)
\* The largest number of segments of a repository name.
MaxDepth == 3

\* filepath.Clean on a sequence of elements: "." is dropped, ".." removes
\* the element before it, is dropped at the root and is kept otherwise.
RECURSIVE CleanLoop(_, _, _)
CleanLoop(p, i, out) ==
    IF i > Len(p) THEN out
    ELSE IF p[i] = <<".">> THEN CleanLoop(p, i + 1, out)
    ELSE IF p[i] = <<"..">>
         THEN IF out = <<>> \/ out[Len(out)] = <<"..">>
              THEN CleanLoop(p, i + 1, Append(out, p[i]))
              ELSE IF out[Len(out)] = <<"/">>
              THEN CleanLoop(p, i + 1, out)
              ELSE CleanLoop(p, i + 1, SubSeq(out, 1, Len(out) - 1))
    ELSE CleanLoop(p, i + 1, Append(out, p[i]))

Clean(p) == LET c == CleanLoop(p, 1, <<>>) IN IF c = <<>> THEN << <<".">> >> ELSE c

\* filepath.Join(a, b) and filepath.Dir(p).
Join(a, b) == Clean(a \o b)
Dir(p) == Clean(SubSeq(p, 1, Len(p) - 1))

RECURSIVE CommonPrefix(_, _, _)
CommonPrefix(a, b, i) ==
    IF i < Len(a) /\ i < Len(b) /\ a[i + 1] = b[i + 1] THEN CommonPrefix(a, b, i + 1) ELSE i

\* filepath.Rel(basepath, targpath) for two paths that are both absolute or
\* both relative: ".." for what is left of basepath, then what is left of
\* targpath.
RelIsDot(basepath, targpath) == << <<".">> >>
Rel(basepath, targpath) ==
    LET b == Clean(basepath)
        t == Clean(targpath)
        n == CommonPrefix(b, t, 0)
    IN  Clean([i \in 1..(Len(b) - n) |-> <<"..">>] \o SubSeq(t, n + 1, Len(t)))

RepoSegments == {<<"library">>, <<"alpine">>, <<"x">>}
Repos == SeqsUpTo(RepoSegments, MaxDepth) \ {<<>>}
ManifestDirs == { << <<"/">>, <<"tmp">>, <<"manifests">> >>, << <<"cache">>, <<"manifests">> >> }
SaveTags == {"latest", "3.6"}

\* m.ID(): one path element without a separator.
SaveID(args) == IF args.v1 THEN <<"v1", args.Image, args.Tag>> ELSE <<"v2", "sha256:config">>

\* link := filepath.Join(dir, m.Image+":"+m.Tag)
LinkPath(args) ==
    LET n == Len(args.Image)
    IN  Join(args.dir, SubSeq(args.Image, 1, n - 1) \o << <<args.Image[n][1], args.Tag>> >>)

NoLink == [path |-> <<>>, target |-> <<>>]
NoSaveArgs == [dir |-> <<>>, Image |-> <<>>, Tag |-> "", v1 |-> FALSE]

\* Save: link, linkDir, rel, target, os.Symlink(target, link).
SaveLink ==
    /\ saveLink = NoLink
    /\ LET link == LinkPath(saveArgs)
           linkDir == Dir(link)
           rel == Rel(linkDir, saveArgs.dir)
           target == Join(rel, <<SaveID(saveArgs)>>)
       IN  saveLink' = [path |-> link, target |-> target]
    /\ UNCHANGED <<saveArgs, layersVars, blobVars, storeVars, poolVars, fetchVars, raceVars, parseVars, restVars>>

(***************************************************************************)
(* Manifest.Save and manifest.Load called concurrently for one repo:ref    *)
(* (two commands sharing a cache directory), one step per filesystem call.  *)
(***************************************************************************)
Savers == {1, 2}
SaveIds == {"v2:old", "v2:new"}

saverIdle == [pc |-> "idle", id |-> NoId, err |-> FALSE]
loaderIdle == [pc |-> "idle", err |-> FALSE, hasV1 |-> FALSE, hasV2 |-> FALSE]

\* Load: json.Unmarshal of the file into a schema1.SignedManifest, then
\* into a schema2.DeserializedManifest.  The file manifests/<id> holds the
\* payload of the variant that named it: signed schema-1 JSON under a v1
\* id, schema-2 JSON (which has no signatures and fails the first
\* Unmarshal) under a v2 id.
IsV1Payload(id) == id = ID(SchemaV1(<<>>))

OthersUnchangedByRace ==
    UNCHANGED <<layersVars, blobVars, poolVars, fetchVars, saveVars, parseVars, opVars, restVars,
                ovl, ovlTmp, linkFile, symlinks, configFiles>>

\* Save: os.Stat(path); when it fails, util.AtomicWriteFile(path, buf).
SaveWriteFile(p) ==
    /\ saver[p].pc = "file"
    /\ manifestFiles' = manifestFiles \cup {saver[p].id}
    /\ saver' = [saver EXCEPT ![p].pc = "remove"]
    /\ UNCHANGED <<manifestLink, loader>>
    /\ OthersUnchangedByRace

\* Save: _ = os.Remove(link)
SaveRemoveLink(p) ==
    /\ saver[p].pc = "remove"
    /\ manifestLink' = NoId
    /\ saver' = [saver EXCEPT ![p].pc = "symlink"]
    /\ UNCHANGED <<manifestFiles, loader>>
    /\ OthersUnchangedByRace

\* Save: err = os.Symlink(target, link), which fails when link exists.
SaveSymlink(p) ==
    /\ saver[p].pc = "symlink"
    /\ IF manifestLink = NoId
       THEN /\ manifestLink' = saver[p].id
            /\ saver' = [saver EXCEPT ![p].pc = "done"]
       ELSE /\ saver' = [saver EXCEPT ![p].pc = "done", ![p].err = TRUE]
            /\ UNCHANGED manifestLink
    /\ UNCHANGED <<manifestFiles, loader>>
    /\ OthersUnchangedByRace

\* Load: buf, err := ioutil.ReadFile(link)
LoadReadFile ==
    /\ loader.pc = "read"
    /\ LET readErr == manifestLink = NoId \/ manifestLink \notin manifestFiles
       IN  loader' = [loader EXCEPT !.pc = "done",
                                    !.err = readErr,
                                    !.hasV1 = ~readErr /\ IsV1Payload(manifestLink),
                                    !.hasV2 = ~readErr /\ ~IsV1Payload(manifestLink)]
    /\ UNCHANGED <<manifestFiles, manifestLink, saver>>
    /\ OthersUnchangedByRace

Save(p) == SaveWriteFile(p) \/ SaveRemoveLink(p) \/ SaveSymlink(p)
Load == LoadReadFile

(***************************************************************************)
(* util.ParseImageSpec (pkg/util/image.go).  An image string is a sequence *)
(* of the symbols "a" (a run of name characters), "sha256" (an algorithm   *)
(* name), ":" and "@"; the digests digest.Parse accepts are "sha256:a".    *)
(***************************************************************************)
\* The largest length of an image string, in symbols.
MaxImageLen == 7

Symbols == {"a", "sha256", ":", "@"}
ImageStrings == SeqsUpTo(Symbols, MaxImageLen)
Latest == <<"latest">>

Contains(str, sep) == \E i \in 1..Len(str) : str[i] = sep

\* strings.Split(str, sep): the pieces between the separators.
RECURSIVE SplitLoop(_, _, _, _, _)
SplitLoop(str, sep, i, cur, out) ==
    IF i > Len(str) THEN Append(out, cur)
    ELSE IF str[i] = sep THEN SplitLoop(str, sep, i + 1, <<>>, Append(out, cur))
    ELSE SplitLoop(str, sep, i + 1, Append(cur, str[i]), out)

Split(str, sep) == SplitLoop(str, sep, 1, <<>>, <<>>)

\* digest.Parse(dgest) succeeds.
DigestParses(dgest) == dgest = <<"sha256", ":", "a">>

parseErr == [err |-> TRUE, repo |-> <<>>, reference |-> <<>>]
parseOk(repo, reference) == [err |-> FALSE, repo |-> repo, reference |-> reference]
NoParse == [err |-> FALSE, repo |-> <<"pending">>, reference |-> <<>>]

\* if dgest == "" { reference = parts[1] }
TagAlwaysUsed(dgest) == TRUE
TagUsed(dgest) == dgest = <<>>

\* The second half of ParseImageSpec: the ':' in repo.
ParseTag(repo, dgest, reference) ==
    IF Contains(repo, ":")
    THEN LET parts == Split(repo, ":")
         IN  IF Len(parts) # 2 THEN parseErr
             ELSE parseOk(parts[1], IF TagUsed(dgest) THEN parts[2] ELSE reference)
    ELSE parseOk(repo, reference)

ParseImageSpec(str) ==
    IF Contains(str, "@")
    THEN LET parts == Split(str, "@")
         IN  IF Len(parts) # 2 THEN parseErr
             ELSE IF ~DigestParses(parts[2]) THEN parseErr
             ELSE ParseTag(parts[1], parts[2], parts[2])
    ELSE ParseTag(str, <<>>, Latest)

CallParseImageSpec ==
    /\ parseOut = NoParse
    /\ parseOut' = ParseImageSpec(parseIn)
    /\ UNCHANGED <<parseIn, layersVars, blobVars, storeVars, poolVars, fetchVars, saveVars, raceVars, restVars>>

(***************************************************************************)
(* util.ParseFullImage.  The image string is the sequence of the           *)
(* components that '/' separates in it, which is what strings.Split        *)
(* returns for it.                                                         *)
(***************************************************************************)
\* The largest number of '/'-separated components of a full image name.
MaxParts == 3

Components == {"alpine", "k8s.gcr.io", "Quay.IO", "my.registry", "localhost", ""}
FullImages == SeqsUpTo(Components, MaxParts) \ {<<>>}

\* strings.Contains(c, ".") and strings.ToLower(c) on the components.
HasDot(c) == c \in {"k8s.gcr.io", "Quay.IO", "my.registry"}
ToLower(c) == IF c = "Quay.IO" THEN "quay.io" ELSE c
\* No component starts with "http://" or "https://": it has no '/'.
HasSchemePrefix(c) == FALSE

DockerRegistry == <<"https://", "registry-1.docker.io", "/">>
GcrRegistry == <<"https://", "gcr.io", "/">>
fullOk(reg, repo) == [err |-> FALSE, registry |-> reg, repo |-> repo]

ParseFullImage(parts) ==
    IF Len(parts) = 1 THEN fullOk(DockerRegistry, <<"library", parts[1]>>)
    ELSE IF parts[1] = "k8s.gcr.io"
    THEN fullOk(GcrRegistry, <<"google_containers">> \o Tail(parts))
    ELSE IF HasDot(parts[1])
    THEN fullOk(IF HasSchemePrefix(ToLower(parts[1])) THEN <<ToLower(parts[1])>>
                ELSE <<"https://", ToLower(parts[1]), "/">>,
                Tail(parts))
    ELSE fullOk(DockerRegistry, parts)

CallParseFullImage ==
    /\ parseOut = NoParse
    /\ parseOut' = ParseFullImage(parseIn)
    /\ UNCHANGED <<parseIn, layersVars, blobVars, storeVars, poolVars, fetchVars, saveVars, raceVars, restVars>>

(***************************************************************************)
(* Flat extraction (tosi.go): main extracts every layer, base first, into  *)
(* the one rootfs directory with extractLayerToDir and applies the layer's *)
(* whiteouts with processWhiteouts.  The rootfs is a map from the paths    *)
(* directly under it to nodes; a regular file's data is the number of the  *)
(* layer that wrote it.                                                    *)
(***************************************************************************)
\* The most layers extracted and the most entries read from one tar.
MaxFlatLayers == 2
MaxTarEntries == 2

Paths == {"a", "b"}
NoNode == [kind |-> "none", data |-> 0, target |-> ""]
DirNode == [kind |-> "dir", data |-> 0, target |-> ""]
FileNode(d) == [kind |-> "file", data |-> d, target |-> ""]
SymlinkNode(dst) == [kind |-> "symlink", data |-> 0, target |-> dst]

\* Tar headers: a directory, a regular file, a symlink with its Linkname,
\* and "wh", a file whose base name is .wh.<Name>.
TarEntries ==
    [Typeflag : {"dir", "reg", "wh"}, Name : Paths, Linkname : {""}]
    \cup [Typeflag : {"symlink"}, Name : Paths, Linkname : Paths]
NoEntry == [Typeflag |-> "", Name |-> "", Linkname |-> ""]

\* The path a system call that follows symlinks ends at: "" when the links
\* form a loop (ELOOP).
RECURSIVE Follow(_, _, _)
Follow(tree, p, hops) ==
    IF tree[p].kind # "symlink" THEN p
    ELSE IF hops = 0 THEN ""
    ELSE Follow(tree, tree[p].target, hops - 1)
Resolve(tree, p) == Follow(tree, p, Cardinality(Paths))

\* os.Remove(name): a file, a symlink or an empty directory is removed; the
\* error for a missing name is dropped by the callers.
Remove(tree, name) == [tree EXCEPT ![name] = NoNode]

\* Before the regular file is written: os.Remove(name), "Ensure nothing
\* exists at this path first".
NothingRemoved(tree, name) == tree
RemoveBeforeWrite(tree, name) == Remove(tree, name)

\* ioutil.WriteFile(name, data, mode): open(O_WRONLY|O_CREATE|O_TRUNC)
\* follows symlinks and fails on a directory or a loop.
WriteFile(tree, name, d) ==
    LET r == Resolve(tree, name)
    IN  IF r = "" \/ tree[r].kind = "dir"
        THEN [tree |-> tree, err |-> TRUE]
        ELSE [tree |-> [tree EXCEPT ![r] = FileNode(d)], err |-> FALSE]

\* os.Chmod(name, mode) follows symlinks; it fails when nothing is there.
ChmodFails(tree, name) ==
    LET r == Resolve(tree, name)
    IN  r = "" \/ tree[r].kind = "none"

\* case tar.TypeDir: os.Mkdir (an existing name is not an error), os.Chmod.
ExtractDir(tree, name) ==
    LET t1 == IF tree[name].kind = "none" THEN [tree EXCEPT ![name] = DirNode] ELSE tree
    IN  [tree |-> t1, err |-> ChmodFails(t1, name)]

\* case tar.TypeReg: os.Remove, ioutil.WriteFile, os.Chmod.
ExtractReg(tree, name, d) ==
    LET w == WriteFile(RemoveBeforeWrite(tree, name), name, d)
    IN  IF w.err THEN w ELSE [tree |-> w.tree, err |-> ChmodFails(w.tree, name)]

\* extractLayerToDir's locals and the rootfs.  last is the header read
\* last and over the kind of node that was at its path when it was read.
flatIdle == [pc |-> "idle", layer |-> 0, n |-> 0, tree |-> [p \in Paths |-> NoNode],
             links |-> <<>>, whiteouts |-> <<>>, err |-> FALSE,
             last |-> NoEntry, over |-> "none"]

FlatOthers ==
    UNCHANGED <<layersVars, blobVars, storeVars, otherVars, mdirs, scfg>>

\* tr.Next() returns a header: whiteouts and links are recorded, a
\* directory or a regular file is created.
FlatEntry ==
    /\ flat.pc = "entries"
    /\ flat.n < MaxTarEntries
    /\ \E e \in TarEntries :
         LET seen == [flat EXCEPT !.n = @ + 1, !.last = e, !.over = flat.tree[e.Name].kind]
             out == IF e.Typeflag = "dir" THEN ExtractDir(flat.tree, e.Name)
                    ELSE ExtractReg(flat.tree, e.Name, flat.layer)
         IN  IF e.Typeflag = "wh"
             THEN flat' = [seen EXCEPT !.whiteouts = Append(@, e.Name)]
             ELSE IF e.Typeflag = "symlink"
             THEN flat' = [seen EXCEPT !.links = Append(@, [dst |-> e.Linkname, src |-> e.Name])]
             ELSE flat' = [seen EXCEPT !.tree = out.tree, !.err = out.err,
                                      !.pc = IF out.err THEN "done" ELSE "entries"]
    /\ FlatOthers

\* tr.Next() returns io.EOF, or an error that ends the extraction.
FlatNext ==
    /\ flat.pc = "entries"
    /\ \E eof \in BOOLEAN :
         flat' = IF eof THEN [flat EXCEPT !.pc = "links"]
                 ELSE [flat EXCEPT !.pc = "done", !.err = TRUE]
    /\ FlatOthers

\* for _, link := range links: os.Remove(link.src), os.Symlink(link.dst,
\* link.src); after the last one the whiteouts are returned.
FlatLink ==
    /\ flat.pc = "links"
    /\ IF flat.links = <<>>
       THEN flat' = [flat EXCEPT !.pc = "whiteouts"]
       ELSE LET link == Head(flat.links)
                t1 == Remove(flat.tree, link.src)
            IN  flat' = [flat EXCEPT !.links = Tail(@),
                                     !.tree = [t1 EXCEPT ![link.src] = SymlinkNode(link.dst)]]
    /\ FlatOthers

\* processWhiteouts(rootfs, wo): os.Lstat(wo); a missing path is skipped,
\* anything else is removed.  After the last one main goes to the next
\* layer, if there is one.
FlatWhiteout ==
    /\ flat.pc = "whiteouts"
    /\ IF flat.whiteouts = <<>>
       THEN \E more \in BOOLEAN :
              flat' = IF more /\ flat.layer < MaxFlatLayers
                      THEN [flat EXCEPT !.pc = "entries", !.layer = @ + 1, !.n = 0]
                      ELSE [flat EXCEPT !.pc = "done"]
       ELSE flat' = [flat EXCEPT !.whiteouts = Tail(@),
                                 !.tree = Remove(@, Head(flat.whiteouts))]
    /\ FlatOthers

extractLayerToDir == FlatEntry \/ FlatNext \/ FlatLink
processWhiteouts == FlatWhiteout

(***************************************************************************)
(* Initial states and specifications.                                      *)
(***************************************************************************)
LayersIdle == mfest = NoManifest /\ layersPc = "done" /\ layersOut = <<>>

StoreIdle ==
    /\ image = NoManifest
    /\ ovl = [h \in LayerHexes |-> NoTree]
    /\ ovlTmp = [h \in LayerHexes |-> NoTree]
    /\ linkFile = [h \in LayerHexes |-> NoToken]
    /\ symlinks = [k \in Tokens |-> NoHex]
    /\ manifestFiles = {}
    /\ manifestLink = NoId
    /\ configFiles = {}
    /\ task = [t \in Tasks |-> taskIdle]
    /\ pull = pullIdle
    /\ mount = mountIdle
    /\ snap = <<FALSE, <<>> >>

PoolIdle ==
    /\ parallelism = 0
    /\ nLayers = 0
    /\ failing = {}
    /\ layerCh = <<>>
    /\ layerChClosed = FALSE
    /\ resultCh = <<>>
    /\ worker = [w \in PoolWorkers |-> workerIdle]
    /\ wg = 0
    /\ taken = [l \in PoolLayers |-> 0]
    /\ pl = plIdle

FetchIdle == registry = NoRegistry /\ fetch = fetchIdle

SaveIdle == saveArgs = NoSaveArgs /\ saveLink = NoLink

RaceIdle == saver = [p \in Savers |-> saverIdle] /\ loader = loaderIdle

ParseIdle == parseIn = <<>> /\ parseOut = NoParse

MountDirsIdle == mdirs = [d \in MountDirNames |-> "absent"]

RestIdle == MountDirsIdle /\ scfg = scfgIdle /\ flat = flatIdle

ExtraIdle == PoolIdle /\ FetchIdle /\ SaveIdle /\ RaceIdle /\ ParseIdle /\ RestIdle

BlobIdle ==
    /\ validateCachedLayers = FALSE
    /\ layerFiles = [h \in Hexes |-> Absent]
    /\ tmpDirs = [d \in TmpNames |-> NoDir]
    /\ sb = [p \in Callers |-> sbIdle]

InitLayers ==
    /\ mfest \in LayerManifests
    /\ layersPc = "call"
    /\ layersOut = <<>>
    /\ BlobIdle
    /\ StoreIdle
    /\ ExtraIdle

NextLayers == CallLayers \/ NewManifest

SpecLayers == InitLayers /\ [][NextLayers]_vars

\* NewRegistryClient(..., validate): an empty layers/ directory.
InitBlob ==
    /\ validateCachedLayers \in BOOLEAN
    /\ layerFiles = [h \in Hexes |-> Absent]
    /\ tmpDirs = [d \in TmpNames |-> NoDir]
    /\ sb = [p \in Callers |-> sbIdle]
    /\ LayersIdle
    /\ StoreIdle
    /\ ExtraIdle

NextBlob == \E p \in Callers : SaveBlob(p)

SpecBlob == InitBlob /\ [][NextBlob]_vars

\* One caller's SaveBlob calls on a layers/ directory that holds one file,
\* intact or damaged, or none.  The first call is for any descriptor, that
\* of a zero-length blob included, and its os.Rename may fail.
EmptyBlob == <<>>
CacheDescs == {Descriptor(Hash(c), sz) : c \in BlobContents \cup {EmptyBlob}, sz \in 0..MaxLen}

InitBlobCache ==
    /\ validateCachedLayers \in BOOLEAN
    /\ \E h \in {d.digest : d \in CacheDescs}, c \in Contents \cup {Absent} :
         layerFiles = [g \in Hexes |-> IF g = h THEN c ELSE Absent]
    /\ tmpDirs = [d \in TmpNames |-> NoDir]
    /\ \E desc \in CacheDescs, fails \in BOOLEAN :
         sb = [p \in Callers |->
                 IF p = 1
                 THEN [sbIdle EXCEPT !.pc = "stat", !.desc = desc, !.renameFails = fails]
                 ELSE sbIdle]
    /\ LayersIdle
    /\ StoreIdle
    /\ ExtraIdle

NextBlobCache == SaveBlob(1)

SpecBlobCache == InitBlobCache /\ [][NextBlobCache]_vars

\* NewStore(basedir, overlaydir, ...) on an empty overlaydir.  basedir is
\* empty, or holds the blobs, the manifest and the config a Pull of the
\* image left there when it ran with another overlaydir.
InitStore ==
    /\ image \in StoreImages
    /\ validateCachedLayers = FALSE
    /\ tmpDirs = [d \in TmpNames |-> NoDir]
    /\ sb = [p \in Callers |-> sbIdle]
    /\ LayersIdle
    /\ ovl = [h \in LayerHexes |-> NoTree]
    /\ ovlTmp = [h \in LayerHexes |-> NoTree]
    /\ linkFile = [h \in LayerHexes |-> NoToken]
    /\ symlinks = [k \in Tokens |-> NoHex]
    /\ \E pulled \in BOOLEAN :
         /\ layerFiles = [h \in Hexes |->
                IF pulled /\ (\E i \in 1..Len(ImageLayers) : ImageLayers[i].digest = h)
                THEN BlobOf(h) ELSE Absent]
         /\ manifestFiles = IF pulled THEN {ID(image)} ELSE {}
         /\ manifestLink = IF pulled THEN ID(image) ELSE NoId
         /\ configFiles = IF pulled THEN {ID(image)} ELSE {}
    /\ task = [t \in Tasks |-> taskIdle]
    /\ pull = pullIdle
    /\ mount = mountIdle
    /\ snap = <<FALSE, <<>> >>
    /\ ExtraIdle

NextStore ==
    \/ Pull
    \/ Mount
    \/ \E t \in PullTasks : TaskSaveBlob(t)
    \/ \E t \in Tasks : LayerTask(t)

SpecStore == InitStore /\ [][NextStore]_vars

\* Pull(image), and Pull(image) once more when it has returned.
NextIdem ==
    \/ Pull
    \/ PullAgain
    \/ \E t \in PullTasks : TaskSaveBlob(t) \/ LayerTask(t)

SpecIdem == InitStore /\ [][NextIdem]_vars

\* NewStore(basedir, overlaydir, parallelism, reg), then pullLayers on a
\* manifest with nLayers layers.
InitPool ==
    /\ parallelism \in Parallelisms
    /\ nLayers \in 0..MaxLayers
    /\ failing \in SUBSET (1..nLayers)
    /\ layerCh = <<>>
    /\ layerChClosed = FALSE
    /\ resultCh = <<>>
    /\ worker = [w \in PoolWorkers |-> workerIdle]
    /\ wg = 0
    /\ taken = [l \in PoolLayers |-> 0]
    /\ pl = [plIdle EXCEPT !.pc = "spawn"]
    /\ LayersIdle
    /\ BlobIdle
    /\ StoreIdle
    /\ FetchIdle
    /\ SaveIdle
    /\ RaceIdle
    /\ ParseIdle
    /\ RestIdle

NextPool ==
    \/ pullLayers
    \/ \E w \in PoolWorkers : doPull(w)

SpecPool == InitPool /\ [][NextPool]_vars

\* The Go scheduler runs every goroutine that can take a step: pullLayers
\* and each doPull goroutine are weakly fair.
SpecPoolFair ==
    /\ SpecPool
    /\ WF_vars(pullLayers)
    /\ \A w \in PoolWorkers : WF_vars(doPull(w))

\* Fetch(reg, image, tag) against any registry.
InitFetch ==
    /\ registry \in Registries
    /\ fetch = [fetchIdle EXCEPT !.pc = "v2"]
    /\ LayersIdle
    /\ BlobIdle
    /\ StoreIdle
    /\ PoolIdle
    /\ SaveIdle
    /\ RaceIdle
    /\ ParseIdle
    /\ RestIdle

NextFetch == Fetch

SpecFetch == InitFetch /\ [][NextFetch]_vars

\* Fetch against any registry, and Load on a manifests/ directory whose
\* repo:ref link is missing or names the saved schema-1 or schema-2
\* manifest.
InitManifest ==
    /\ registry \in Registries
    /\ fetch = [fetchIdle EXCEPT !.pc = "v2"]
    /\ loader = [loaderIdle EXCEPT !.pc = "read"]
    /\ saver = [p \in Savers |-> saverIdle]
    /\ manifestLink \in {NoId} \cup {ID(m) : m \in StoreImages}
    /\ manifestFiles = {manifestLink} \ {NoId}
    /\ image = NoManifest
    /\ ovl = [h \in LayerHexes |-> NoTree]
    /\ ovlTmp = [h \in LayerHexes |-> NoTree]
    /\ linkFile = [h \in LayerHexes |-> NoToken]
    /\ symlinks = [k \in Tokens |-> NoHex]
    /\ configFiles = {}
    /\ task = [t \in Tasks |-> taskIdle]
    /\ pull = pullIdle
    /\ mount = mountIdle
    /\ snap = <<FALSE, <<>> >>
    /\ LayersIdle
    /\ BlobIdle
    /\ PoolIdle
    /\ SaveIdle
    /\ ParseIdle
    /\ RestIdle

NextManifest == Fetch \/ Load

SpecManifest == InitManifest /\ [][NextManifest]_vars

\* Manifest.Save(dir) of a manifest of any repository, tag and schema.
InitSaveLink ==
    /\ saveArgs \in [dir : ManifestDirs, Image : Repos, Tag : SaveTags, v1 : BOOLEAN]
    /\ saveLink = NoLink
    /\ LayersIdle
    /\ BlobIdle
    /\ StoreIdle
    /\ PoolIdle
    /\ FetchIdle
    /\ RaceIdle
    /\ ParseIdle
    /\ RestIdle

NextSaveLink == SaveLink

SpecSaveLink == InitSaveLink /\ [][NextSaveLink]_vars

\* The link of repo:ref exists (an earlier Save made it); two Save calls
\* and one Load call for repo:ref start.
InitLinkRace ==
    /\ saver \in [Savers -> {[saverIdle EXCEPT !.pc = "file", !.id = i] : i \in SaveIds}]
    /\ loader = [loaderIdle EXCEPT !.pc = "read"]
    /\ \E old \in SaveIds :
         /\ manifestFiles = {old}
         /\ manifestLink = old
    /\ image = NoManifest
    /\ ovl = [h \in LayerHexes |-> NoTree]
    /\ ovlTmp = [h \in LayerHexes |-> NoTree]
    /\ linkFile = [h \in LayerHexes |-> NoToken]
    /\ symlinks = [k \in Tokens |-> NoHex]
    /\ configFiles = {}
    /\ task = [t \in Tasks |-> taskIdle]
    /\ pull = pullIdle
    /\ mount = mountIdle
    /\ snap = <<FALSE, <<>> >>
    /\ LayersIdle
    /\ BlobIdle
    /\ PoolIdle
    /\ FetchIdle
    /\ SaveIdle
    /\ ParseIdle
    /\ RestIdle

NextLinkRace ==
    \/ \E p \in Savers : Save(p)
    \/ Load

SpecLinkRace == InitLinkRace /\ [][NextLinkRace]_vars

\* What a Pull of the image that returned no error leaves in overlays/:
\* every layer's tree as archive.Untar got it, and a short link per digest.
PulledTree(c) == {i \in 1..Len(c) : \A j \in 1..i : c[j] = 1}
IsLayer(h) == \E i \in 1..Len(ImageLayers) : ImageLayers[i].digest = h
FirstLayer(h) == CHOOSE i \in 1..Len(ImageLayers) :
                    ImageLayers[i].digest = h /\ \A j \in 1..(i - 1) : ImageLayers[j].digest # h

\* Mount(image, dest) on a cache a Pull of the image filled, with the
\* overlay directory that Pull used or with a new, empty one, and with
\* dest, dest.upper and dest.work in any state.
InitMount ==
    /\ image \in StoreImages
    /\ validateCachedLayers = FALSE
    /\ tmpDirs = [d \in TmpNames |-> NoDir]
    /\ sb = [p \in Callers |-> sbIdle]
    /\ LayersIdle
    /\ layerFiles = [h \in Hexes |-> IF IsLayer(h) THEN BlobOf(h) ELSE Absent]
    /\ manifestFiles = {ID(image)}
    /\ manifestLink = ID(image)
    /\ configFiles = {ID(image)}
    /\ ovlTmp = [h \in LayerHexes |-> NoTree]
    /\ \E extracted \in BOOLEAN :
         /\ ovl = [h \in LayerHexes |->
                     IF extracted /\ IsLayer(h) THEN PulledTree(BlobOf(h)) ELSE NoTree]
         /\ linkFile = [h \in LayerHexes |->
                          IF extracted /\ IsLayer(h) THEN FirstLayer(h) ELSE NoToken]
         /\ symlinks = [k \in Tokens |->
                          IF /\ extracted
                             /\ k <= Len(ImageLayers)
                             /\ FirstLayer(ImageLayers[k].digest) = k
                          THEN ImageLayers[k].digest ELSE NoHex]
    /\ task = [t \in Tasks |-> taskIdle]
    /\ pull = pullIdle
    /\ mount = mountIdle
    /\ snap = <<TRUE, Cache>>
    /\ mdirs \in [MountDirNames -> DirStates]
    /\ scfg = scfgIdle
    /\ flat = flatIdle
    /\ PoolIdle /\ FetchIdle /\ SaveIdle /\ RaceIdle /\ ParseIdle

NextMount ==
    \/ Mount
    \/ \E t \in MountTasks : LayerTask(t)

SpecMount == InitMount /\ [][NextMount]_vars

\* The cache as a successful Pull of the image left it, from which any of
\* the derived state was removed since: a layer's overlays/<hex>/, its
\* overlays/<hex>.link (with or without the symlink it names), and
\* configs/<id>.  layers/ and manifests/ are intact.
ImageHexes == {h \in LayerHexes : IsLayer(h)}

InitRepair ==
    /\ image \in StoreImages
    /\ validateCachedLayers = FALSE
    /\ tmpDirs = [d \in TmpNames |-> NoDir]
    /\ sb = [p \in Callers |-> sbIdle]
    /\ LayersIdle
    /\ layerFiles = [h \in Hexes |-> IF IsLayer(h) THEN BlobOf(h) ELSE Absent]
    /\ manifestFiles = {ID(image)}
    /\ manifestLink = ID(image)
    /\ configFiles \in {{}, {ID(image)}}
    /\ ovlTmp = [h \in LayerHexes |-> NoTree]
    /\ \E noDir \in SUBSET ImageHexes, noLink \in SUBSET ImageHexes :
       \E noSym \in SUBSET noLink :
         /\ ovl = [h \in LayerHexes |->
                     IF IsLayer(h) /\ h \notin noDir THEN PulledTree(BlobOf(h)) ELSE NoTree]
         /\ linkFile = [h \in LayerHexes |->
                          IF IsLayer(h) /\ h \notin noLink THEN FirstLayer(h) ELSE NoToken]
         /\ symlinks = [k \in Tokens |->
                          IF /\ k <= Len(ImageLayers)
                             /\ FirstLayer(ImageLayers[k].digest) = k
                             /\ ImageLayers[k].digest \notin noSym
                          THEN ImageLayers[k].digest ELSE NoHex]
    /\ task = [t \in Tasks |-> taskIdle]
    /\ pull = pullIdle
    /\ mount = mountIdle
    /\ snap = <<TRUE, Cache>>
    /\ MountDirsIdle
    /\ scfg = scfgIdle
    /\ flat = flatIdle
    /\ PoolIdle /\ FetchIdle /\ SaveIdle /\ RaceIdle /\ ParseIdle

\* One reader of the cache runs: Pull(image), Mount(image, dest) or
\* SaveConfig(image, dest).
NextRepair ==
    \/ /\ mount.pc = "idle" /\ scfg.pc = "idle"
       /\ Pull \/ \E t \in PullTasks : TaskSaveBlob(t) \/ LayerTask(t)
    \/ /\ pull.pc = "idle" /\ scfg.pc = "idle"
       /\ Mount \/ \E t \in MountTasks : LayerTask(t)
    \/ /\ pull.pc = "idle" /\ mount.pc = "idle"
       /\ SaveConfig

SpecRepair == InitRepair /\ [][NextRepair]_vars

\* A Pull beside a Mount on a cache that was pulled before, whose
\* overlays/ was emptied and in which the blob file of one layer was cut
\* to zero length; cached layers are validated, as for a cache that may be
\* damaged.
InitDamaged ==
    /\ image = SchemaV2(<<Desc2(GoodBlob), Desc2(SmallBlob)>>)
    /\ validateCachedLayers = TRUE
    /\ tmpDirs = [d \in TmpNames |-> NoDir]
    /\ sb = [p \in Callers |-> sbIdle]
    /\ LayersIdle
    /\ ovl = [h \in LayerHexes |-> NoTree]
    /\ ovlTmp = [h \in LayerHexes |-> NoTree]
    /\ linkFile = [h \in LayerHexes |-> NoToken]
    /\ symlinks = [k \in Tokens |-> NoHex]
    /\ \E cut \in ImageHexes :
         layerFiles = [h \in Hexes |->
                IF h = cut THEN EmptyBlob
                ELSE IF h \in ImageHexes THEN BlobOf(h) ELSE Absent]
    /\ manifestFiles = {ID(image)}
    /\ manifestLink = ID(image)
    /\ configFiles = {ID(image)}
    /\ task = [t \in Tasks |-> taskIdle]
    /\ pull = pullIdle
    /\ mount = mountIdle
    /\ snap = <<FALSE, <<>> >>
    /\ ExtraIdle

SpecDamaged == InitDamaged /\ [][NextStore]_vars

\* The process is killed while a layer task is between os.Mkdir(tmpdir) and
\* os.Rename(dest, into): no deferred call runs, the files stay as they
\* are, and the store is opened again by a new process.
Kill ==
    /\ ~snap[1]
    /\ \E t \in Tasks : t \in Active(Tasks) /\ task[t].pc \in {"untar", "rename"}
    /\ task' = [t \in Tasks |-> taskIdle]
    /\ pull' = pullIdle
    /\ mount' = mountIdle
    /\ snap' = <<TRUE, Cache>>
    /\ UNCHANGED <<extraVars, layersVars, blobVars, cacheVars, image>>

\* The cache holds the blobs, the manifest and the config of the image and
\* an empty overlays/; a Pull or a Mount runs, is killed during an
\* extraction, and a Pull or a Mount runs in the new process.
InitCrash ==
    /\ image \in StoreImages
    /\ validateCachedLayers = FALSE
    /\ tmpDirs = [d \in TmpNames |-> NoDir]
    /\ sb = [p \in Callers |-> sbIdle]
    /\ LayersIdle
    /\ layerFiles = [h \in Hexes |-> IF IsLayer(h) THEN BlobOf(h) ELSE Absent]
    /\ manifestFiles = {ID(image)}
    /\ manifestLink = ID(image)
    /\ configFiles = {ID(image)}
    /\ ovl = [h \in LayerHexes |-> NoTree]
    /\ ovlTmp = [h \in LayerHexes |-> NoTree]
    /\ linkFile = [h \in LayerHexes |-> NoToken]
    /\ symlinks = [k \in Tokens |-> NoHex]
    /\ task = [t \in Tasks |-> taskIdle]
    /\ pull = pullIdle
    /\ mount = mountIdle
    /\ snap = <<FALSE, <<>> >>
    /\ ExtraIdle

NextCrash ==
    \/ /\ mount.pc = "idle"
       /\ Pull \/ \E t \in PullTasks : TaskSaveBlob(t) \/ LayerTask(t)
    \/ /\ pull.pc = "idle"
       /\ Mount \/ \E t \in MountTasks : LayerTask(t)
    \/ Kill

SpecCrash == InitCrash /\ [][NextCrash]_vars

\* Mount's goroutines as they reach createShortLink: every layer of the
\* image is extracted, overlays/ holds no short link yet, and the write of
\* a layer's .link file may fail.
InitShortLink ==
    /\ image \in StoreImages
    /\ validateCachedLayers = FALSE
    /\ tmpDirs = [d \in TmpNames |-> NoDir]
    /\ sb = [p \in Callers |-> sbIdle]
    /\ LayersIdle
    /\ layerFiles = [h \in Hexes |-> IF IsLayer(h) THEN BlobOf(h) ELSE Absent]
    /\ manifestFiles = {ID(image)}
    /\ manifestLink = ID(image)
    /\ configFiles = {ID(image)}
    /\ ovl = [h \in LayerHexes |-> IF IsLayer(h) THEN PulledTree(BlobOf(h)) ELSE NoTree]
    /\ ovlTmp = [h \in LayerHexes |-> NoTree]
    /\ linkFile = [h \in LayerHexes |-> NoToken]
    /\ symlinks = [k \in Tokens |-> NoHex]
    /\ \E fails \in [MountTasks -> BOOLEAN] :
         task = [t \in Tasks |->
                   IF t \in Active(MountTasks)
                   THEN [taskIdle EXCEPT !.pc = "linkstat", !.writeFails = fails[t]]
                   ELSE taskIdle]
    /\ pull = pullIdle
    /\ mount = [mountIdle EXCEPT !.pc = "tasks"]
    /\ snap = <<FALSE, <<>> >>
    /\ mdirs = MountDirs([d \in MountDirNames |-> "absent"]).dirs
    /\ scfg = scfgIdle
    /\ flat = flatIdle
    /\ PoolIdle /\ FetchIdle /\ SaveIdle /\ RaceIdle /\ ParseIdle

NextShortLink ==
    \/ MountCollect
    \/ MountReadLink
    \/ MountExec
    \/ \E t \in MountTasks : TaskLinkStat(t) \/ TaskSymlink(t) \/ TaskWriteLink(t)

SpecShortLink == InitShortLink /\ [][NextShortLink]_vars

\* main with -extractto: the rootfs was just created, the first layer's
\* tar is opened.
InitFlat ==
    /\ flat = [flatIdle EXCEPT !.pc = "entries", !.layer = 1]
    /\ LayersIdle /\ BlobIdle /\ StoreIdle /\ PoolIdle /\ FetchIdle /\ SaveIdle /\ RaceIdle
    /\ ParseIdle /\ MountDirsIdle /\ scfg = scfgIdle

NextFlat == extractLayerToDir \/ processWhiteouts

SpecFlat == InitFlat /\ [][NextFlat]_vars

OthersIdle ==
    /\ LayersIdle /\ BlobIdle /\ StoreIdle /\ PoolIdle /\ FetchIdle /\ SaveIdle /\ RaceIdle
    /\ RestIdle

\* ParseImageSpec(image) for any image string.
InitParseSpec == parseIn \in ImageStrings /\ parseOut = NoParse /\ OthersIdle
NextParseSpec == CallParseImageSpec
SpecParseSpec == InitParseSpec /\ [][NextParseSpec]_vars

\* ParseFullImage(fullImage) for any image string.
InitParseFull == parseIn \in FullImages /\ parseOut = NoParse /\ OthersIdle
NextParseFull == CallParseFullImage
SpecParseFull == InitParseFull /\ [][NextParseFull]_vars

(***************************************************************************)
(* Claims on SaveBlob (SpecBlob).                                          *)
(***************************************************************************)
\* C2. Digest integrity: starting from an empty layers/, in every state of
\* every interleaving of SaveBlob calls (succeeding or failing, any stream
\* content, validation on or off), each file layers/<hex> has content whose
\* hash is <hex>.
DigestIntegrity ==
    \A h \in Hexes : layerFiles[h] # Absent => Hash(layerFiles[h]) = h

\* C2 witness: layers/<hex> is present while a call for the same digest has
\* ended in an error after a stream that did not satisfy its descriptor.
DigestIntegrityWitness ==
    \E p \in Callers :
        /\ sb[p].pc = "done" /\ sb[p].err /\ sb[p].opened /\ sb[p].badStream
        /\ layerFiles[Name(p)] # Absent

\* Two calls that have both returned, for the same descriptor.
BothReturned(p, q) ==
    /\ p # q
    /\ sb[p].pc = "done" /\ sb[q].pc = "done"
    /\ sb[p].desc = sb[q].desc

\* C5, the result: when two calls for the same descriptor have returned and
\* each one that opened a stream received bytes satisfying the descriptor,
\* both returned without error and layers/<hex> holds content matching the
\* digest; and two calls never hold the same temporary directory.
SameDescriptorResult ==
    \A p, q \in Callers :
        /\ (p # q /\ sb[p].pc # "idle" /\ sb[q].pc # "idle") => TempDir(p) # TempDir(q)
        /\ (BothReturned(p, q) /\ ~sb[p].badStream /\ ~sb[q].badStream)
              => /\ ~sb[p].err /\ ~sb[q].err
                 /\ layerFiles[Name(p)] # Absent
                 /\ Hash(layerFiles[Name(p)]) = Name(p)

\* C5, the steps: a step leaves the temporary directory of every call that
\* did not take it as it was, and leaves every file layers/<hex> present
\* with the content it had.
SameDescriptorStep ==
    /\ \A p \in Callers : sb'[p] = sb[p] => tmpDirs'[TempDir(p)] = tmpDirs[TempDir(p)]
    /\ \A h \in Hexes : layerFiles[h] # Absent => layerFiles'[h] = layerFiles[h]

\* C5. Two concurrent SaveBlob calls for the same descriptor, each receiving
\* a correct stream, are safe in every interleaving: disjoint temporary
\* directories, no call removes or truncates the other's temporary or final
\* file, and after both return layers/<hex> matches the digest.
ConcurrentSaveBlobSafe == []SameDescriptorResult /\ [][SameDescriptorStep]_vars

\* C5 witness: both calls downloaded the blob and renamed it in place, the
\* second rename replacing the first one's file.
ConcurrentSaveBlobWitness ==
    \E p, q \in Callers :
        /\ BothReturned(p, q)
        /\ sb[p].renamed /\ sb[q].renamed
        /\ ~sb[p].err /\ ~sb[q].err

(***************************************************************************)
(* Claims on Layers() (SpecLayers).                                        *)
(***************************************************************************)
Digests(refs) == [i \in 1..Len(refs) |-> refs[i].digest]

\* The source list of the variant Layers() uses, base layer first: schema-1
\* lists the top-most layer first, schema-2 the base layer first.
SourceBaseFirst(m) ==
    IF m.hasV1 THEN Reverse(Digests(m.ManifestV1)) ELSE Digests(m.ManifestV2)

\* C9. Layer order: for every manifest, schema-1 or schema-2, Layers()
\* returns the base layer first and the top layer last and contains no
\* digest twice, whatever duplicates the source list has.
LayerOrderNoDuplicates ==
    layersPc = "done" =>
        LET out == Digests(layersOut)
            src == SourceBaseFirst(mfest)
        IN  /\ IsDupFree(out)
            /\ src # <<>> => /\ out # <<>>
                             /\ out[1] = src[1]
                             /\ out[Len(out)] = src[Len(src)]


\* C1 (atomic visibility): every directory overlays/<hex>/ is a fully
\* extracted layer, at every point of every interleaving of the Pull and
\* Mount layer tasks, a failing tar extraction included.
AtomicVisibility == \A h \in LayerHexes : ovl[h] # NoTree => Complete(h, ovl[h])

\* C3: when the download or the extraction of a layer failed during Pull,
\* Pull returns an error and no image id.
PullFailsWhenLayerFails ==
    (pull.pc = "done" /\ \E t \in Active(PullTasks) : task[t].dlFailed \/ task[t].untarFailed)
        => (pull.err /\ pull.id = NoId)

\* C4: a layer task whose archive.Untar returned an error ends with an
\* error (unpackLayer surfaced it).
UntarErrorSurfaced ==
    \A t \in Tasks : (task[t].pc = "done" /\ task[t].untarFailed) => task[t].err

\* C6: when the only layer tasks of a Pull that failed are losers of a race
\* on a digest, Pull does not fail.
LoserIsBenign ==
    ( /\ pull.pc = "done"
      /\ \E t \in Active(PullTasks) : task[t].lostRace
      /\ \A t \in Active(PullTasks) : task[t].err => task[t].lostRace )
        => ~pull.err

\* C7 (idempotent pull): with cache validation off, a second Pull after a
\* successful one opens no blob stream, calls unpackLayer for no layer,
\* allocates no short link and fetches no config, and when it has returned
\* the cache is as the first Pull left it.
IdempotentPull ==
    (pull.round = 2 /\ snap[1]) =>
        /\ \A t \in PullTasks :
              /\ ~task[t].opened
              /\ ~task[t].extracted
              /\ task[t].pc \notin {"mkdir", "untar", "rename", "symlink", "writelink"}
        /\ ~pull.cfgFetched
        /\ pull.pc = "done" => Cache = snap[2]

IdempotentPullWitness ==
    /\ pull.round = 2
    /\ snap[1]
    /\ pull.pc = "done"
    /\ pull.id = ID(image)
    /\ \A t \in Active(PullTasks) : task[t].pc = "done"
    /\ \E h \in LayerHexes : ovl[h] # NoTree /\ linkFile[h] # NoToken

\* C8 (short-link determinism): after a successful Pull, for every layer of
\* the image overlays/<hex>.link exists iff overlays/<hex>/ does, and the
\* token in it names a symlink that points to overlays/<hex>.
ShortLinkDeterminism ==
    (pull.pc = "done" /\ ~pull.err) =>
        \A i \in 1..Len(ImageLayers) :
            LET h == ImageLayers[i].digest
            IN  /\ (linkFile[h] # NoToken) <=> (ovl[h] # NoTree)
                /\ linkFile[h] # NoToken => symlinks[linkFile[h]] = h

\* C10: Mount runs the mount command only when every layer task has ended
\* and returned no error, with one token per layer in lowerdir; and each
\* token appended to lowerdir is the one in the .link file of the next layer
\* going from the last layer of Layers() down to the first.
MountAfterTasks ==
    mount.called =>
        /\ \A t \in Active(MountTasks) : task[t].pc = "done" /\ ~task[t].err
        /\ Len(mount.lowers) = Len(ImageLayers)

LowerdirStep ==
    mount'.lowers # mount.lowers =>
        /\ Len(mount.lowers) < Len(ImageLayers)
        /\ mount'.lowers =
             Append(mount.lowers,
                    linkFile[ImageLayers[Len(ImageLayers) - Len(mount.lowers)].digest])

ResultsFor(l, q) == Cardinality({i \in 1..Len(q) : q[i][1] = l})
ErrorsFor(l, q) == Cardinality({i \in 1..Len(q) : q[i] = l})

AllCollect ==
    /\ \A l \in PoolLayers :
          /\ taken[l] <= 1
          /\ ResultsFor(l, pl.read \o resultCh) <= 1
    /\ \A w \in PoolWorkers : worker[w].pc \in {"exit", "exited"} => layerChClosed
    /\ pl.pc \in {"close", "wait", "blocked", "woken", "panic", "done"} =>
          \A l \in 1..nLayers :
             /\ taken[l] = 1
             /\ ResultsFor(l, pl.read) = 1
             /\ <<l, l \in failing>> \in {pl.read[i] : i \in 1..Len(pl.read)}
             /\ ErrorsFor(l, pl.result) = IF l \in failing THEN 1 ELSE 0

AllCollectWitness ==
    /\ pl.pc = "done"
    /\ nLayers = 2
    /\ failing = {1}
    /\ pl.result = <<1>>
    /\ \E w \in PoolWorkers : worker[w].pc = "exited"

\* C12: with a configured parallelism p > 0, never more than p layers are
\* being downloaded or extracted at once.
WorkingNow == {w \in PoolWorkers : worker[w].pc = "work"}

AtMostParallelism == parallelism > 0 => Cardinality(WorkingNow) <= parallelism

AtMostParallelismWitness ==
    /\ parallelism = 1
    /\ nLayers = 2
    /\ Cardinality(WorkingNow) = 1
    /\ layerCh # <<>>

\* C13: for every configured parallelism p <= 0, zero or negative,
\* pullLayers starts one worker per layer.
NonPositiveStartsOnePerLayer ==
    (parallelism <= 0 /\ pl.pc # "spawn") => pl.spawned = nLayers

\* C14: when the registry answers the manifest request with a manifest
\* list none of whose entries matches the host platform, Fetch returns an
\* error and no manifest.
PlatformMismatchFails ==
    ( /\ fetch.pc = "done"
      /\ registry.tag.kind = "list"
      /\ FirstMatch(registry.tag.Manifests, 1) = 0 )
        => (fetch.err /\ ~fetch.hasV1 /\ ~fetch.hasV2)

\* C15 (relative manifest link): the target stored in the repo:ref link
\* is a relative path and, joined with the directory of the link, it is
\* manifests/<id>, whatever the number of segments of the repository.
RelativeManifestLink ==
    saveLink # NoLink =>
        /\ saveLink.target[1] # <<"/">>
        /\ Join(Dir(saveLink.path), saveLink.target) = saveArgs.dir \o <<SaveID(saveArgs)>>

RelativeManifestLinkWitness ==
    /\ saveLink # NoLink
    /\ Len(saveArgs.Image) = 3
    /\ saveLink.target[1] = <<"..">>

\* C16: the repo:ref link is replaced atomically: a Load that runs while
\* Saves of the same repo:ref run finds the link, which existed before, and
\* concurrent Saves all succeed.
LinkReplacedAtomically ==
    /\ loader.pc = "done" => ~loader.err
    /\ \A p \in Savers : saver[p].pc = "done" => ~saver[p].err

\* C17: when ParseImageSpec returns without error, the repository holds
\* neither ':' nor '@' and is the start of the image string; with an '@'
\* the reference is what follows it (a tag before it is dropped); without
\* one the reference is what follows the ':', or "latest" without a ':'.
IndexOf(str, sep) == CHOOSE i \in 1..Len(str) : str[i] = sep /\ \A j \in 1..(i - 1) : str[j] # sep
After(str, sep) == SubSeq(str, IndexOf(str, sep) + 1, Len(str))

ImageSpecParsed ==
    (parseOut # NoParse /\ ~parseOut.err) =>
        /\ ~Contains(parseOut.repo, ":") /\ ~Contains(parseOut.repo, "@")
        /\ SubSeq(parseIn, 1, Len(parseOut.repo)) = parseOut.repo
        /\ Contains(parseIn, "@") => parseOut.reference = After(parseIn, "@")
        /\ (~Contains(parseIn, "@") /\ Contains(parseIn, ":")) =>
              parseIn = parseOut.repo \o <<":">> \o parseOut.reference
        /\ (~Contains(parseIn, "@") /\ ~Contains(parseIn, ":")) =>
              parseOut.reference = Latest /\ parseOut.repo = parseIn

ImageSpecParsedWitness ==
    /\ parseIn = <<"a", ":", "a", "@", "sha256", ":", "a">>
    /\ parseOut = parseOk(<<"a">>, <<"sha256", ":", "a">>)

\* C18: ParseFullImage takes a first component with a '.' as the registry
\* and the default registry otherwise, rewrites k8s.gcr.io to gcr.io with
\* google_containers/ before the repository, and never returns a
\* repository of a single segment (it is prefixed with library/).
FullImageParsed ==
    parseOut # NoParse =>
        /\ parseIn[1] = "k8s.gcr.io" =>
              /\ parseOut.registry = GcrRegistry
              /\ parseOut.repo = <<"google_containers">> \o Tail(parseIn)
        /\ (HasDot(parseIn[1]) /\ parseIn[1] # "k8s.gcr.io") =>
              parseOut.registry = <<"https://", ToLower(parseIn[1]), "/">>
        /\ ~HasDot(parseIn[1]) => parseOut.registry = DockerRegistry
        /\ Len(parseOut.repo) # 1

\* C19: when dest, dest.upper or dest.work exists and is not empty, Mount
\* returns an error, starts no layer task and does not run the mount
\* command.
MountRejectsUsedDirs ==
    (mount.pc # "idle" /\ \E d \in MountDirNames : mdirs[d] = "nonempty") =>
        /\ mount.pc = "done"
        /\ mount.err
        /\ ~mount.called
        /\ \A t \in MountTasks : task[t].pc = "idle"

\* C20: Mount of an image whose layers all have overlays/<hex>/ and
\* overlays/<hex>.link when it starts opens no blob stream, never calls
\* unpackLayer, creates no short link and leaves layers/, overlays/,
\* manifests/ and configs/ as they were.
CachedAtStart ==
    /\ snap[1]
    /\ \A i \in 1..Len(ImageLayers) :
          /\ snap[2][2][ImageLayers[i].digest] # NoTree
          /\ snap[2][4][ImageLayers[i].digest] # NoToken

MountOfCachedImage ==
    CachedAtStart =>
        /\ Cache = snap[2]
        /\ pull = pullIdle
        /\ \A t \in Tasks :
              /\ ~task[t].opened
              /\ ~task[t].extracted
              /\ task[t].pc \in {"idle", "stat", "linkstat", "done"}

MountOfCachedImageWitness ==
    /\ CachedAtStart
    /\ mount.called
    /\ ~mount.err
    /\ Len(mount.lowers) = 2

\* C21: readers tolerate missing derived state.  When the layer tasks of a
\* Pull or of a Mount have all ended, every layer of the image (its blob is
\* in layers/) has its overlays/<hex>/, unpacked by a task when it was
\* missing, its overlays/<hex>.link and the symlink the link file names,
\* pointing to overlays/<hex>; and SaveConfig, when configs/<id> is
\* missing, writes the config of the image to dest, failing only when the
\* registry request for the config blob fails.
Repaired(h) ==
    /\ ovl[h] # NoTree
    /\ linkFile[h] # NoToken
    /\ symlinks[linkFile[h]] = h

ReadersRepairDerivedState ==
    /\ \A S \in {PullTasks, MountTasks} :
          AllDone(S) =>
             \A t \in Active(S) :
                /\ Repaired(Dgst(t))
                /\ snap[2][2][Dgst(t)] = NoTree =>
                      \E u \in Active(S) : Dgst(u) = Dgst(t) /\ task[u].extracted
    /\ (scfg.pc = "done" /\ ID(image) \notin configFiles) =>
          \/ ~scfg.err /\ scfg.dest = ID(image)
          \/ scfg.getBlobFailed

\* C22: after Pull(image) returned without error the cache holds, for every
\* layer of the manifest, the blob layers/<hex>, the directory
\* overlays/<hex>/ and the file overlays/<hex>.link, and it holds
\* manifests/<id>, the link manifests/<repo>:<ref> resolving to it, and
\* configs/<id>.
PullReturnedNil == pull.pc = "done" /\ ~pull.err

PullPostcondition ==
    PullReturnedNil =>
        /\ \A i \in 1..Len(ImageLayers) :
              LET h == ImageLayers[i].digest
              IN  /\ layerFiles[h] # Absent
                  /\ ovl[h] # NoTree
                  /\ linkFile[h] # NoToken
        /\ ID(image) \in manifestFiles
        /\ manifestLink = ID(image)
        /\ ID(image) \in configFiles

PullPostconditionWitness ==
    /\ PullReturnedNil
    /\ pull.id = ID(image)
    /\ \E t \in Active(PullTasks) : task[t].opened /\ task[t].extracted

\* C23: in flat extraction, when a layer's tar has a regular file at a path
\* where an earlier layer left a symlink, the symlink is removed before the
\* file is written: the path then holds a regular file with this layer's
\* content and no other path of the tree, the symlink's target included,
\* is changed.
RegularFileOverSymlinkStep ==
    ( /\ flat.pc = "entries"
      /\ flat'.n = flat.n + 1
      /\ flat'.last.Typeflag = "reg"
      /\ flat.tree[flat'.last.Name].kind = "symlink" )
    => /\ ~flat'.err
       /\ flat'.tree[flat'.last.Name] = FileNode(flat.layer)
       /\ \A p \in Paths \ {flat'.last.Name} : flat'.tree[p] = flat.tree[p]

RegularFileOverSymlink == [][RegularFileOverSymlinkStep]_vars

RegularFileOverSymlinkWitness ==
    /\ flat.last.Typeflag = "reg"
    /\ flat.over = "symlink"
    /\ flat.layer = 2
    /\ flat.tree[flat.last.Name] = FileNode(2)
    /\ \E p \in Paths : flat.tree[p] = FileNode(1)

\* C24: pullLayers terminates for every number of layers, every worker
\* count and every set of failing layers: the producer's send of a
\* descriptor and a worker's send of a result never find their channel
\* full, the channel is closed only after len(layers) results were read,
\* and pullLayers eventually returns.
SendsNeverBlock ==
    /\ (pl.pc = "feed" /\ pl.sent < nLayers) => Len(layerCh) < ChanCap(nLayers)
    /\ \A w \in PoolWorkers : worker[w].pc = "send" => Len(resultCh) < ChanCap(nLayers)
    /\ layerChClosed => Len(pl.read) = nLayers

PullLayersTerminates == []SendsNeverBlock /\ <>(pl.pc = "done")

\* C25: workers are drained: when pullLayers has returned, every doPull
\* goroutine it started has exited.
WorkersDrained ==
    pl.pc = "done" => \A w \in 1..pl.spawned : worker[w].pc = "exited"

\* C26: in Pull the manifest is saved and the config is saved only after
\* every layer task has ended without error; no layer task runs while they
\* are saved; the config is written after the manifest and its link are in
\* place, never together with them; and a Pull with a failed layer writes
\* none of manifests/<id>, the repo:ref link and configs/<id>.
LayerTasksSucceeded ==
    \A t \in Active(PullTasks) : task[t].pc = "done" /\ ~task[t].err

SavePhase == pull.pc \in {"savefile", "rmlink", "symlink", "config"}

SaveStep ==
    LET manifestWritten == manifestFiles' # manifestFiles \/ manifestLink' # manifestLink
        configWritten == configFiles' # configFiles
    IN  /\ (manifestWritten \/ configWritten) => (LayerTasksSucceeded /\ task' = task)
        /\ manifestWritten => (pull.pc \in {"savefile", "rmlink", "symlink"} /\ ~configWritten)
        /\ configWritten =>
              /\ pull.pc = "config"
              /\ ID(image) \in manifestFiles
              /\ manifestLink = ID(image)

CacheDecisionStep ==
    \A p \in Callers :
        LET h == Name(p)
            present == layerFiles[h] # Absent
            matches == present /\ Hash(layerFiles[h]) = sb[p].desc.digest
        IN  /\ (sb[p].pc = "stat" /\ sb'[p].pc # "stat") =>
                  sb'[p].pc = IF ~present THEN "tempdir"
                              ELSE IF validateCachedLayers THEN "validate" ELSE "done"
            /\ (sb[p].pc = "validate" /\ sb'[p].pc # "validate") =>
                  sb'[p].pc = IF matches THEN "done" ELSE "tempdir"
            /\ (sb[p].pc \in {"stat", "validate"} /\ sb'[p].pc = "done") =>
                  /\ layerFiles' = layerFiles
                  /\ ~sb'[p].err /\ ~sb'[p].opened /\ ~sb'[p].badStream
            /\ sb'[p].pc = "open" => sb[p].pc \in {"tempdir", "open"}

StreamOnlyWhenNeeded == [][CacheDecisionStep]_vars

StreamOnlyWhenNeededWitness ==
    /\ validateCachedLayers
    /\ sb[1].pc = "open"
    /\ layerFiles[Name(1)] # Absent
    /\ Hash(layerFiles[Name(1)]) # Name(1)

\* C28: SaveBlob fails and puts no file at layers/<hex> when fewer bytes
\* than descriptor.size were written, when the size is 0 and not even one
\* byte was written, or when the verifier reports no match; it goes on to
\* the rename only when the size requirement and the verifier both hold.
SizeAndDigestStep ==
    \A p \in Callers :
        (sb[p].pc = "copy" /\ sb'[p].pc # "copy" /\ tmpDirs'[TempDir(p)] # NoDir) =>
            LET bytes == tmpDirs'[TempDir(p)][1]
                ok == /\ Len(bytes) >= sb[p].desc.size
                      /\ sb[p].desc.size = 0 => Len(bytes) >= 1
                      /\ Hash(bytes) = sb[p].desc.digest
            IN  /\ ~ok => (sb'[p].err /\ sb'[p].pc = "cleanup" /\ layerFiles' = layerFiles)
                /\ sb'[p].pc = "rename" => ok

SizeAndDigestRequired == [][SizeAndDigestStep]_vars

\* C29: when SaveBlob has returned, with or without an error, the
\* temporary directory it created is gone; and a call that returns an error
\* has not changed layers/<hex>, present or absent.
TempDirGone ==
    \A p \in Callers : sb[p].pc \in {"done", "idle"} => tmpDirs[TempDir(p)] = NoDir

FailedCallStep ==
    /\ \A p \in Callers : (sb'[p] # sb[p] /\ sb'[p].err) => layerFiles' = layerFiles
    /\ layerFiles' # layerFiles => \E p \in Callers : sb[p].pc = "rename" /\ ~sb[p].err

CleanOnReturn == []TempDirGone /\ [][FailedCallStep]_vars

CleanOnReturnWitness ==
    /\ sb[1].pc = "done"
    /\ sb[1].err
    /\ sb[1].renameFails
    /\ ~sb[1].badStream
    /\ sb[1].opened
    /\ layerFiles[Name(1)] # Absent

\* C30: createShortLink retries on collision: when os.Symlink fails because
\* the generated name exists in overlays/, it does not go on to write the
\* .link file with that token; it writes the .link file only with a token
\* whose symlink it has created.
RetryOnCollisionStep ==
    \A t \in Tasks :
        (task[t].pc = "symlink" /\ task'[t].pc = "writelink") =>
            /\ symlinks[task'[t].tok] = NoHex
            /\ symlinks'[task'[t].tok] = Dgst(t)

RetryOnCollision == [][RetryOnCollisionStep]_vars

\* C31: per-layer extraction directories are immutable after creation:
\* once overlays/<hex>/ exists, no step of a Pull or Mount task changes,
\* replaces or removes it.
ExtractionDirsImmutableStep ==
    \A h \in LayerHexes : ovl[h] # NoTree => ovl'[h] = ovl[h]

ExtractionDirsImmutable == [][ExtractionDirsImmutableStep]_vars

\* A task found overlays/<hex>/ in the way of its rename: the directory,
\* empty as extracted from a blob file cut to zero length, is still there,
\* while the blob file was downloaded again meanwhile.
ExtractionDirsImmutableWitness ==
    \E t \in Tasks :
        /\ t \in Active(Tasks)
        /\ task[t].pc = "cleanup"
        /\ task[t].lostRace
        /\ ovl[Dgst(t)] = {}
        /\ ovlTmp[Dgst(t)] # NoTree
        /\ ovlTmp[Dgst(t)] # {}

\* The elements of s in the order of their first occurrence.
FirstVisits(s) ==
    LET keep == {i \in 1..Len(s) : \A j \in 1..(i - 1) : s[j] # s[i]}
    IN  [k \in 1..Cardinality(keep) |->
            s[CHOOSE i \in keep : Cardinality({j \in keep : j <= i}) = k]]

\* C32: for a schema-1 manifest with source references r[1..n], Layers() is
\* the sequence of digests met for the first time when visiting r[n],
\* r[n-1], ..., r[1]; every source digest is in the result exactly once.
V1LayersFirstVisits ==
    (layersPc = "done" /\ mfest.hasV1) =>
        LET out == Digests(layersOut)
            src == Digests(mfest.ManifestV1)
        IN  /\ out = FirstVisits(Reverse(src))
            /\ \A i \in 1..Len(src) :
                 Cardinality({k \in 1..Len(out) : out[k] = src[i]}) = 1
            /\ \A k \in 1..Len(layersOut) :
                 \E i \in 1..Len(src) : mfest.ManifestV1[i] = layersOut[k]

V1LayersFirstVisitsWitness ==
    /\ layersPc = "done"
    /\ mfest.hasV1
    /\ Len(mfest.ManifestV1) = MaxRefs
    /\ Len(layersOut) = 2
    /\ mfest.ManifestV1[1].digest = mfest.ManifestV1[MaxRefs].digest

\* C33: in flat extraction of layers applied base first, a whiteout found
\* in layer k deletes its path only as contributed by the layers below k,
\* never an entry the same or a later layer put there, and a whiteout whose
\* path does not exist is skipped without an error.
WhiteoutStep ==
    (flat.pc = "whiteouts" /\ flat.whiteouts # <<>> /\ flat' # flat) =>
        LET p == Head(flat.whiteouts)
        IN  /\ flat'.err = flat.err
            /\ flat'.pc = "whiteouts"
            /\ \A q \in Paths \ {p} : flat'.tree[q] = flat.tree[q]
            /\ flat.tree[p].kind = "file" => flat.tree[p].data < flat.layer

WhiteoutsDeleteLowerLayersOnly == [][WhiteoutStep]_vars

\* C34: a Pull that returns an error leaves the manifests/<repo>:<ref> link
\* as it was before the call, absent or pointing to the previous manifest,
\* whichever step failed.
LinkBeforeCall == snap[2][7]

FailedPullKeepsLink ==
    (pull.round = 2 /\ pull.pc = "done" /\ pull.err) => manifestLink = LinkBeforeCall

\* C35: in every interleaving of layer tasks on the same digest, the
\* deferred removal of overlays/.<hex> by a task never removes a directory
\* that another task has created and is extracting into or about to rename.
Extracting(u) == u \in Active(Tasks) /\ task[u].pc \in {"untar", "rename"}

CleanupStep ==
    \A t \in Tasks :
        (t \in Active(Tasks) /\ task[t].pc = "cleanup" /\ task'[t].pc # "cleanup"
            /\ ovlTmp[Dgst(t)] # NoTree /\ ovlTmp'[Dgst(t)] = NoTree) =>
                ~\E u \in Tasks \ {t} : Extracting(u) /\ Dgst(u) = Dgst(t)

CleanupRemovesOwnDirOnly == [][CleanupStep]_vars

\* C36: an atomic extraction interrupted between the creation of
\* overlays/.<hex> and its rename does not prevent recovery: in a Pull or a
\* Mount that runs afterwards with the blob present, the task of a layer
\* (no other task of the call being on the same digest) extracts the layer
\* and ends without an error.
RecoversAfterKill ==
    snap[1] =>
        \A S \in {PullTasks, MountTasks} :
            AllDone(S) =>
                \A t \in Active(S) :
                    (\A u \in Active(S) \ {t} : Dgst(u) # Dgst(t)) =>
                        /\ ~task[t].err
                        /\ ovl[Dgst(t)] # NoTree

\* C37: when no createShortLink call of a Pull worker or a Mount task is
\* running, overlays/ holds for each digest at most one short-name symlink
\* that points to overlays/<hex>, and it is the one overlays/<hex>.link
\* names.
NoTaskRunning == \A t \in Tasks : task[t].pc \in {"idle", "done"}

OneShortLinkPerDigest ==
    NoTaskRunning =>
        \A h \in LayerHexes :
            /\ Cardinality({k \in Tokens : symlinks[k] = h}) <= 1
            /\ \A k \in Tokens : symlinks[k] = h => linkFile[h] = k

\* C38: createShortLink never removes and never records in its own .link
\* file a short-name symlink that it did not create: when the token it drew
\* is the name of another layer's symlink, the step that follows, whether
\* the write of the .link file succeeds or fails, leaves that symlink in
\* place, pointing to the other layer, and does not put the token in the
\* task's .link file.
ForeignSymlinkStep ==
    \A t \in Tasks :
        (/\ t \in Active(Tasks)
         /\ task[t].pc = "writelink"
         /\ task'[t].pc # "writelink"
         /\ symlinks[task[t].tok] # Dgst(t)) =>
            /\ symlinks' = symlinks
            /\ linkFile'[Dgst(t)] # task[t].tok

ForeignSymlinkUntouched == [][ForeignSymlinkStep]_vars

\* C39: every Manifest that Fetch or Load returns without an error has its
\* schema-1 or its schema-2 variant set, whatever the two registry requests
\* answered, so that Layers(), ID() and Config() do not reach the "no
\* manifest available" panic; and Layers(), ID(), Config() and Save() all
\* work on the same variant, the schema-1 one when both are set.
Returned(r) == [hasV1 |-> r.hasV1, hasV2 |-> r.hasV2]

UsableManifest(m) ==
    /\ m.hasV1 \/ m.hasV2
    /\ ~Panics(m)
    /\ \A v \in {LayersVariant(m), IDVariant(m), ConfigVariant(m), SaveVariant(m)} :
         v = IF m.hasV1 THEN "v1" ELSE "v2"

ReturnedManifestUsable ==
    /\ (fetch.pc = "done" /\ ~fetch.err) => UsableManifest(Returned(fetch))
    /\ (loader.pc = "done" /\ ~loader.err) => UsableManifest(Returned(loader))

ReturnedManifestUsableWitness ==
    /\ fetch.pc = "done"
    /\ ~fetch.err
    /\ fetch.hasV1
    /\ fetch.hasV2
    /\ loader.pc = "done"
    /\ ~loader.err
    /\ loader.hasV2
====
